---- MODULE Spec2Model ----
(***************************************************************************)
(* The currency ledger of Dopamine Hero: CurrencyService                   *)
(* .processSessionRewards running inside DatabaseService.transaction       *)
(* against the tables user_currency_balances and currency_transactions,    *)
(* with the triggers initialize_user_balance and log_currency_transaction. *)
(*                                                                         *)
(* Amounts are whole currency units.  Every call of processSessionRewards  *)
(* is a process; its steps are the database statements it awaits (BEGIN,   *)
(* the locking read, UPDATE, COMMIT / ROLLBACK).  Statements of one        *)
(* database transaction become visible to others only at COMMIT.           *)
(***************************************************************************)
EXTENDS Integers, Sequences, FiniteSets, TLC

\* ------------------------------------------------------------------ bounds
MaxCalls == 2

\* ------------------------------------------------------- program constants
ENERGY_MAX_BALANCE == 10000
DOPAMINE_MAX_BALANCE == 1000000
\* DECIMAL(10,2) and DECIMAL(10,4): |value| must stay below 10^(10-scale)
EnergyColumnLimit == 100000000
DopamineColumnLimit == 1000000

\* ------------------------------------------------------------------ inputs
Calls == 1..MaxCalls
UserIds == {"u1", "u2"}
SessionIds == {"s1", "s2"}
\* <<energyAmount, dopamineAmount>> of a call, as completeSession computes
\* them from one duration (both negative, both zero, or energy positive):
\* a negative reward, an empty reward, a reward that twice reaches exactly
\* ENERGY_MAX_BALANCE, one that twice passes the dopamine ceiling, and one
\* that passes the energy ceiling after any other
Rewards == {<<-1, -1>>, <<0, 0>>, <<5000, 0>>, <<4000, 600000>>, <<6000, 0>>}

NoRow == [absent |-> TRUE]
NoArgs == [absent |-> TRUE]
NoError == [name |-> "none", cause |-> "none"]
NULL == "NULL"

VARIABLES
  user_currency_balances, \* committed rows: user id -> row or NoRow
  currency_transactions,  \* committed audit rows, in commit order
  rowLock,                \* user id -> call holding the row lock, 0 if free
  pc,                     \* call -> position in processSessionRewards
  args,                   \* call -> arguments of the call
  currentBalances,        \* call -> row returned by getBalancesWithLock
  pendingRow,             \* call -> uncommitted version of the balance row
  pendingTx,              \* call -> uncommitted rows written by the trigger
  error,                  \* call -> error thrown to the caller
  focus_sessions,         \* committed rows: session id -> row or NoRow
  now,                    \* the clock, in milliseconds
  request,                \* call -> arguments of the session operation
  completion,             \* call -> endTime, duration and rewards computed
                          \*         by completeSession before its update
  redis,                  \* session id -> cached session or NoRow
  module_presets,         \* committed rows: preset id -> row
  user_modules,           \* committed rows: the <<user id, module id>> owned
  queue,                  \* SyncQueue.queue: the operations waiting
  isOnline,               \* SyncQueue.isOnline
  executing,              \* the operations whose executeOperation is awaited
  executed                \* the operations executed, in the order they ended

vars == <<user_currency_balances, currency_transactions, rowLock, pc, args,
          currentBalances, pendingRow, pendingTx, error,
          focus_sessions, now, request, completion, redis, module_presets,
          user_modules, queue, isOnline, executing, executed>>

\* the state of the SyncQueue, which no service touches
syncVars == <<queue, isOnline, executing, executed>>

\* the state of FocusSessionService, which the ledger never touches
sessionVars == <<focus_sessions, now, request, completion, redis,
                 module_presets, user_modules, syncVars>>

\* --------------------------------------------------------------- the schema
\* user_currency_balances: the column defaults of a freshly inserted row
DefaultBalanceRow ==
  [energy_balance |-> 0, dopamine_balance |-> 0,
   total_energy_earned |-> 0, total_dopamine_earned |-> 0]

Abs(n) == IF n < 0 THEN -n ELSE n

\* user_currency_balances: CHECK (... >= 0) and the DECIMAL column widths
BalanceRowAccepted(row) ==
  /\ row.energy_balance >= 0
  /\ row.dopamine_balance >= 0
  /\ row.total_energy_earned >= 0
  /\ row.total_dopamine_earned >= 0
  /\ Abs(row.energy_balance) < EnergyColumnLimit
  /\ Abs(row.total_energy_earned) < EnergyColumnLimit
  /\ Abs(row.dopamine_balance) < DopamineColumnLimit
  /\ Abs(row.total_dopamine_earned) < DopamineColumnLimit

\* the trigger as it would be with OLD in place of NEW in the snapshot columns
log_currency_transaction_old(userId, old, new) ==
  (IF new.energy_balance # old.energy_balance
     THEN << [user_id |-> userId, transaction_type |-> "balance_update",
              energy_amount |-> new.energy_balance - old.energy_balance,
              dopamine_amount |-> 0,
              balance_after_energy |-> old.energy_balance,
              balance_after_dopamine |-> old.dopamine_balance,
              reference_id |-> "NULL", reference_type |-> "NULL"] >>
     ELSE << >>)
  \o
  (IF new.dopamine_balance # old.dopamine_balance
     THEN << [user_id |-> userId, transaction_type |-> "balance_update",
              energy_amount |-> 0,
              dopamine_amount |-> new.dopamine_balance - old.dopamine_balance,
              balance_after_energy |-> old.energy_balance,
              balance_after_dopamine |-> old.dopamine_balance,
              reference_id |-> "NULL", reference_type |-> "NULL"] >>
     ELSE << >>)

\* log_currency_transaction: the rows the AFTER UPDATE trigger inserts.  The
\* trigger is created without arguments, so TG_ARGV[0] and TG_ARGV[1] are NULL;
\* an amount column that is not listed takes its default 0.
log_currency_transaction(userId, old, new) ==
  (IF new.energy_balance # old.energy_balance
     THEN << [user_id |-> userId, transaction_type |-> "balance_update",
              energy_amount |-> new.energy_balance - old.energy_balance,
              dopamine_amount |-> 0,
              balance_after_energy |-> new.energy_balance,
              balance_after_dopamine |-> new.dopamine_balance,
              reference_id |-> NULL, reference_type |-> NULL] >>
     ELSE << >>)
  \o
  (IF new.dopamine_balance # old.dopamine_balance
     THEN << [user_id |-> userId, transaction_type |-> "balance_update",
              energy_amount |-> 0,
              dopamine_amount |-> new.dopamine_balance - old.dopamine_balance,
              balance_after_energy |-> new.energy_balance,
              balance_after_dopamine |-> new.dopamine_balance,
              reference_id |-> NULL, reference_type |-> NULL] >>
     ELSE << >>)

\* ------------------------------------------------- processSessionRewards
\* the checks without the test for a negative energy amount
ValidateRewards_no_sign(cur, energyAmount, dopamineAmount) ==
  IF cur.energy_balance + energyAmount > ENERGY_MAX_BALANCE
    THEN "ValidationError"
  ELSE "ok"

\* the checks without the test for the energy ceiling
ValidateRewards_no_ceiling(cur, energyAmount, dopamineAmount) ==
  IF energyAmount < 0 THEN "ValidationError" ELSE "ok"

\* the checks with the energy balance compared to the dopamine ceiling
ValidateRewards_wrong_max(cur, energyAmount, dopamineAmount) ==
  IF energyAmount < 0 THEN "ValidationError"
  ELSE IF cur.energy_balance + energyAmount > DOPAMINE_MAX_BALANCE
    THEN "ValidationError"
  ELSE "ok"

\* the two checks made on the row read under the lock
ValidateRewards(cur, energyAmount, dopamineAmount) ==
  IF energyAmount < 0 THEN "ValidationError"
  ELSE IF cur.energy_balance + energyAmount > ENERGY_MAX_BALANCE
    THEN "ValidationError"
  ELSE "ok"

\* the UPDATE with its parameters bound in the wrong order
UpdateBalances_swapped(row, energyAmount, dopamineAmount) ==
  [energy_balance |-> row.energy_balance + dopamineAmount,
   dopamine_balance |-> row.dopamine_balance + energyAmount,
   total_energy_earned |-> row.total_energy_earned + dopamineAmount,
   total_dopamine_earned |-> row.total_dopamine_earned + energyAmount]

\* the UPDATE without the two lifetime columns
UpdateBalances_no_totals(row, energyAmount, dopamineAmount) ==
  [energy_balance |-> row.energy_balance + energyAmount,
   dopamine_balance |-> row.dopamine_balance + dopamineAmount,
   total_energy_earned |-> row.total_energy_earned,
   total_dopamine_earned |-> row.total_dopamine_earned]

\* UPDATE user_currency_balances SET ... : the new version of the row
UpdateBalances(row, energyAmount, dopamineAmount) ==
  [energy_balance |-> row.energy_balance + energyAmount,
   dopamine_balance |-> row.dopamine_balance + dopamineAmount,
   total_energy_earned |-> row.total_energy_earned + energyAmount,
   total_dopamine_earned |-> row.total_dopamine_earned + dopamineAmount]

\* getBalancesWithLock: the user's balance row, read FOR UPDATE (the action
\* Lock takes the row lock); its body is not part of the sources
getBalancesWithLock(userId) == user_currency_balances[userId]

\* a transaction whose writes survive ROLLBACK
transaction_no_rollback(committed, written, commit) == written

\* DatabaseService.transaction: what a transaction leaves in a table,
\* COMMIT keeps its writes and ROLLBACK discards them
transaction(committed, written, commit) ==
  IF commit THEN written ELSE committed

\* the catch block wrapping an error without keeping the original error
Thrown_no_cause(cause) ==
  IF cause = "ValidationError"
    THEN [name |-> "ValidationError", cause |-> "none"]
    ELSE [name |-> "DatabaseError", cause |-> "none"]

\* the catch block: a ValidationError is re-thrown, anything else is wrapped
Thrown(cause) ==
  IF cause = "ValidationError"
    THEN [name |-> "ValidationError", cause |-> "none"]
    ELSE [name |-> "DatabaseError", cause |-> cause]

\* new SyncQueue(): an empty queue, offline, nothing in execution
NoSyncQueue ==
  /\ queue = << >>
  /\ isOnline = FALSE
  /\ executing = {}
  /\ executed = << >>

\* user_modules as the sessions find it: u1 owns five modules, u2 one
InitialUserModules ==
  {<<"u1", m>> : m \in {"m1", "m3", "m4", "m5", "m6"}} \cup {<<"u2", "m2">>}

\* the database once the schema is installed and the first user has signed
\* up: that user's balance row with its defaults, no transaction, no call
Init ==
  /\ user_currency_balances =
       [u \in UserIds |-> IF u = "u1" THEN DefaultBalanceRow ELSE NoRow]
  /\ currency_transactions = << >>
  /\ rowLock = [u \in UserIds |-> 0]
  /\ pc = [c \in Calls |-> "idle"]
  /\ args = [c \in Calls |-> NoArgs]
  /\ currentBalances = [c \in Calls |-> NoRow]
  /\ pendingRow = [c \in Calls |-> NoRow]
  /\ pendingTx = [c \in Calls |-> << >>]
  /\ error = [c \in Calls |-> NoError]
  /\ focus_sessions = [s \in SessionIds |-> NoRow]
  /\ now = 0
  /\ request = [c \in Calls |-> NoArgs]
  /\ completion = [c \in Calls |-> NoArgs]
  /\ redis = [s \in SessionIds |-> NoRow]
  /\ module_presets = << >>
  /\ user_modules = InitialUserModules
  /\ NoSyncQueue

\* initialize_user_balance: inserting a user provisions the balance row
CreateUser(u) ==
  /\ user_currency_balances[u] = NoRow
  /\ user_currency_balances' = [user_currency_balances EXCEPT ![u] = DefaultBalanceRow]
  /\ UNCHANGED <<currency_transactions, rowLock, pc, args, currentBalances,
                 pendingRow, pendingTx, error, sessionVars>>

\* processSessionRewards is called; pool.connect() and BEGIN
Begin(c) ==
  /\ pc[c] = "idle"
  /\ \A b \in Calls : b < c => pc[b] # "idle"
  /\ \E u \in UserIds, s \in SessionIds, r \in Rewards :
       args' = [args EXCEPT ![c] = [userId |-> u, energyAmount |-> r[1],
                                    dopamineAmount |-> r[2], sessionId |-> s]]
  /\ pc' = [pc EXCEPT ![c] = "begun"]
  /\ UNCHANGED <<user_currency_balances, currency_transactions, rowLock,
                 currentBalances, pendingRow, pendingTx, error, sessionVars>>

\* the transaction ends without COMMIT: ROLLBACK, release, throw
Abort(c, cause) ==
  /\ pc' = [pc EXCEPT ![c] = "threw"]
  /\ error' = [error EXCEPT ![c] = Thrown(cause)]
  /\ user_currency_balances' =
       IF pendingRow[c] = NoRow THEN user_currency_balances
       ELSE [user_currency_balances EXCEPT ![args[c].userId] =
               transaction(@, pendingRow[c], FALSE)]
  /\ currency_transactions' =
       transaction(currency_transactions, currency_transactions \o pendingTx[c], FALSE)
  /\ rowLock' = [u \in UserIds |-> IF rowLock[u] = c THEN 0 ELSE rowLock[u]]
  /\ pendingRow' = [pendingRow EXCEPT ![c] = NoRow]
  /\ pendingTx' = [pendingTx EXCEPT ![c] = << >>]
  /\ currentBalances' = [currentBalances EXCEPT ![c] = NoRow]

\* the locking read waiting for every row lock of the table to be free
Lock_whole_table(c) ==
  /\ pc[c] = "begun"
  /\ LET u == args[c].userId IN
       /\ getBalancesWithLock(u) # NoRow
       /\ \A b \in UserIds : rowLock[b] = 0
       /\ rowLock' = [rowLock EXCEPT ![u] = c]
       /\ currentBalances' = [currentBalances EXCEPT ![c] = getBalancesWithLock(u)]
  /\ pc' = [pc EXCEPT ![c] = "locked"]
  /\ UNCHANGED <<user_currency_balances, currency_transactions, args,
                 pendingRow, pendingTx, error, sessionVars>>

\* await getBalancesWithLock: waits while another transaction holds the row
Lock(c) ==
  /\ pc[c] = "begun"
  /\ LET u == args[c].userId IN
       /\ getBalancesWithLock(u) # NoRow
       /\ rowLock[u] = 0
       /\ rowLock' = [rowLock EXCEPT ![u] = c]
       /\ currentBalances' = [currentBalances EXCEPT ![c] = getBalancesWithLock(u)]
  /\ pc' = [pc EXCEPT ![c] = "locked"]
  /\ UNCHANGED <<user_currency_balances, currency_transactions, args,
                 pendingRow, pendingTx, error, sessionVars>>

\* getBalancesWithLock finds no balance row for the user
LockUserNotFound(c) ==
  /\ pc[c] = "begun"
  /\ getBalancesWithLock(args[c].userId) = NoRow
  /\ Abort(c, "UserNotFound")
  /\ UNCHANGED <<args, sessionVars>>

\* one of the two checks throws a ValidationError
RejectRewards(c) ==
  /\ pc[c] = "locked"
  /\ ValidateRewards(currentBalances[c], args[c].energyAmount,
                     args[c].dopamineAmount) = "ValidationError"
  /\ Abort(c, "ValidationError")
  /\ UNCHANGED <<args, sessionVars>>

\* await client.query(UPDATE ...), with the trigger it fires
Update(c) ==
  /\ pc[c] = "locked"
  /\ ValidateRewards(currentBalances[c], args[c].energyAmount,
                     args[c].dopamineAmount) = "ok"
  /\ rowLock[args[c].userId] = c
  /\ LET u == args[c].userId
         old == user_currency_balances[u]
         new == UpdateBalances(old, args[c].energyAmount, args[c].dopamineAmount)
     IN IF BalanceRowAccepted(new)
          THEN /\ pendingRow' = [pendingRow EXCEPT ![c] = new]
               /\ pendingTx' = [pendingTx EXCEPT ![c] =
                                  log_currency_transaction(u, old, new)]
               /\ pc' = [pc EXCEPT ![c] = "updated"]
               /\ UNCHANGED <<user_currency_balances, currency_transactions,
                              rowLock, error, currentBalances>>
          ELSE Abort(c, "constraint")
  /\ UNCHANGED <<args, sessionVars>>

\* COMMIT into a log that keeps, for a user, only the rows of the user's
\* latest credit
Commit_latest_only(c) ==
  /\ pc[c] = "updated"
  /\ user_currency_balances' =
       [user_currency_balances EXCEPT ![args[c].userId] =
          transaction(@, pendingRow[c], TRUE)]
  /\ currency_transactions' =
       SelectSeq(currency_transactions, LAMBDA r : r.user_id # args[c].userId)
         \o pendingTx[c]
  /\ rowLock' = [u \in UserIds |-> IF rowLock[u] = c THEN 0 ELSE rowLock[u]]
  /\ pendingRow' = [pendingRow EXCEPT ![c] = NoRow]
  /\ pendingTx' = [pendingTx EXCEPT ![c] = << >>]
  /\ currentBalances' = [currentBalances EXCEPT ![c] = NoRow]
  /\ pc' = [pc EXCEPT ![c] = "returned"]
  /\ UNCHANGED <<args, error, sessionVars>>

\* COMMIT: the row version and the trigger's rows become visible together
Commit(c) ==
  /\ pc[c] = "updated"
  /\ user_currency_balances' =
       [user_currency_balances EXCEPT ![args[c].userId] =
          transaction(@, pendingRow[c], TRUE)]
  /\ currency_transactions' =
       transaction(currency_transactions, currency_transactions \o pendingTx[c], TRUE)
  /\ rowLock' = [u \in UserIds |-> IF rowLock[u] = c THEN 0 ELSE rowLock[u]]
  /\ pendingRow' = [pendingRow EXCEPT ![c] = NoRow]
  /\ pendingTx' = [pendingTx EXCEPT ![c] = << >>]
  /\ currentBalances' = [currentBalances EXCEPT ![c] = NoRow]
  /\ pc' = [pc EXCEPT ![c] = "returned"]
  /\ UNCHANGED <<args, error, sessionVars>>

\* a statement fails (connection lost, server error) before COMMIT succeeded
Fail(c) ==
  /\ pc[c] \in {"begun", "locked", "updated"}
  /\ Abort(c, "connection")
  /\ UNCHANGED <<args, sessionVars>>

Next ==
  \/ \E u \in UserIds : CreateUser(u)
  \/ \E c \in Calls : Begin(c)
  \/ \E c \in Calls : Lock(c)
  \/ \E c \in Calls : LockUserNotFound(c)
  \/ \E c \in Calls : RejectRewards(c)
  \/ \E c \in Calls : Update(c)
  \/ \E c \in Calls : Commit(c)
  \/ \E c \in Calls : Fail(c)

Spec == Init /\ [][Next]_vars

\* ============================================== IEEE 754 double arithmetic
\* A JavaScript number is a double: sign * mantissa * 2^exponent, with a
\* mantissa of 53 bits.  The mantissa is kept in four limbs of 14 bits, least
\* significant first; the mantissa of zero is zero.
LimbBits == 14
Limb == 16384
MantissaBits == 53
PowersOfTwo == <<1, 2, 4, 8, 16, 32, 64, 128, 256, 512, 1024, 2048, 4096, 8192, 16384>>
Pow2(n) == PowersOfTwo[n + 1]

Double(sign, mantissa, exponent) == [s |-> sign, m |-> mantissa, e |-> exponent]
BigZero == <<0, 0, 0, 0>>
DoubleZero == Double(1, BigZero, 0)
IsZero(x) == x.m = BigZero

\* limb i of the natural number x, 0 beyond its length
LimbAt(x, i) == IF i \in 1..Len(x) THEN x[i] ELSE 0
\* bit i of x, counted from 0
BitAt(x, i) == (LimbAt(x, (i \div LimbBits) + 1) \div Pow2(i % LimbBits)) % 2
\* the 14 bits of x from bit position from on (bits below 0 are 0)
Bits14(x, from) ==
  LET q == from \div LimbBits
      r == from % LimbBits
  IN (LimbAt(x, q + 1) \div Pow2(r)) + (LimbAt(x, q + 2) % Pow2(r)) * Pow2(LimbBits - r)
\* x shifted right by s bits (left when s is negative), in n limbs
Shift(x, s, n) == [j \in 1..n |-> Bits14(x, s + LimbBits * (j - 1))]
\* some bit of x below position i is 1
AnyBelow(x, i) ==
  \E j \in 1..Len(x) :
    \/ LimbBits * j <= i /\ x[j] # 0
    \/ LimbBits * (j - 1) < i /\ i < LimbBits * j /\ x[j] % Pow2(i % LimbBits) # 0

RECURSIVE IntBitLength(_)
IntBitLength(n) == IF n = 0 THEN 0 ELSE 1 + IntBitLength(n \div 2)
\* the number of bits of x
BitLength(x) ==
  IF \A j \in 1..Len(x) : x[j] = 0 THEN 0
  ELSE LET top == CHOOSE j \in 1..Len(x) :
                    x[j] # 0 /\ \A i \in (j + 1)..Len(x) : x[i] = 0
       IN LimbBits * (top - 1) + IntBitLength(x[top])

\* the carries of column sums propagated from limb i on
RECURSIVE Carry(_, _, _)
Carry(cols, i, carry) ==
  IF i > Len(cols) THEN << >>
  ELSE LET t == cols[i] + carry
       IN <<t % Limb>> \o Carry(cols, i + 1, t \div Limb)

BigAdd(x, y) == Carry([j \in 1..Len(x) |-> x[j] + LimbAt(y, j)], 1, 0)
\* x - y for x >= y
BigSub(x, y) == Carry([j \in 1..Len(x) |-> x[j] - LimbAt(y, j)], 1, 0)
BigMul(x, y) ==
  Carry([k \in 1..(Len(x) + Len(y)) |->
           LET term(i) == IF (k + 1 - i) \in 1..Len(y) THEN x[i] * y[k + 1 - i] ELSE 0
           IN term(1) + term(2) + term(3) + term(4)], 1, 0)
BigLess(x, y) ==
  \E j \in 1..Len(x) :
    /\ x[j] < LimbAt(y, j)
    /\ \A i \in (j + 1)..Len(x) : x[i] = LimbAt(y, i)

\* the double nearest to sign * x * 2^exponent, ties to the even mantissa
RoundToDouble(sign, x, exponent) ==
  LET length == BitLength(x)
      s == length - MantissaBits
      q == Shift(x, s, 4)
      up == /\ s > 0
            /\ BitAt(x, s - 1) = 1
            /\ (AnyBelow(x, s - 1) \/ q[1] % 2 = 1)
      rounded == IF up THEN BigAdd(q, <<1>>) ELSE q
  IN IF length = 0 THEN DoubleZero
     ELSE IF BitLength(rounded) > MantissaBits
       THEN Double(sign, Shift(rounded, 1, 4), exponent + s + 1)
     ELSE Double(sign, rounded, exponent + s)

\* the double of an integer below 2^28 in absolute value
FromInt(n) ==
  LET a == IF n < 0 THEN -n ELSE n
  IN RoundToDouble(IF n < 0 THEN -1 ELSE 1, <<a % Limb, a \div Limb, 0, 0>>, 0)

\* x * y
Multiply(x, y) == RoundToDouble(x.s * y.s, BigMul(x.m, y.m), x.e + y.e)

\* x < y for doubles that are not negative
LessThan(x, y) ==
  IF IsZero(y) THEN FALSE
  ELSE IF IsZero(x) THEN TRUE
  ELSE x.e < y.e \/ (x.e = y.e /\ BigLess(x.m, y.m))

\* x - y for doubles that are not negative and whose exponents differ by
\* less than 28
Minus(x, y) ==
  IF IsZero(y) THEN x
  ELSE IF IsZero(x) THEN Double(-1, y.m, y.e)
  ELSE LET e == IF x.e < y.e THEN x.e ELSE y.e
           a == Shift(x.m, e - x.e, 6)
           b == Shift(y.m, e - y.e, 6)
       IN IF BigLess(a, b) THEN RoundToDouble(-1, BigSub(b, a), e)
          ELSE RoundToDouble(1, BigSub(a, b), e)

\* Math.max(x, y) for x that is not negative
MathMax(x, y) == IF y.s = -1 \/ LessThan(y, x) THEN x ELSE y

\* Math.round(x): the integer nearest to x, a tie going up
MathRound(x) ==
  LET s == 0 - x.e
      q == Shift(x.m, s, 3)
      whole == q[1] + q[2] * Limb + q[3] * Limb * Limb
      half == s > 0 /\ BitAt(x.m, s - 1) = 1
      more == s > 1 /\ AnyBelow(x.m, s - 1)
  IN IF x.s = 1 THEN (IF half THEN whole + 1 ELSE whole)
     ELSE 0 - (IF half /\ more THEN whole + 1 ELSE whole)

\* the number literals of FocusSessionService as doubles
D_0_1 == Double(1, <<6554, 9830, 6553, 1638>>, -56)
D_0_5 == Double(1, <<0, 0, 0, 1024>>, -53)
D_0_9 == Double(1, <<3277, 13107, 3276, 1843>>, -53)
D_1 == Double(1, <<0, 0, 0, 1024>>, -52)
D_1_1 == Double(1, <<6554, 9830, 6553, 1126>>, -52)
D_1_15 == Double(1, <<9830, 6553, 9830, 1177>>, -52)
D_1_2 == Double(1, <<13107, 3276, 13107, 1228>>, -52)
D_100 == Double(1, <<0, 0, 0, 1600>>, -46)
D_10000 == Double(1, <<0, 0, 0, 1250>>, -39)

\* =========================================================== focus sessions
\* FocusSessionService over the table focus_sessions.  Every call of a
\* session operation is handled by a worker; a worker's steps are the
\* statements it awaits (the read in validateSessionAccess, the update, then
\* the steps of processSessionRewards above).

\* ------------------------------------------------------------------ bounds
MaxWorkers == 2
MaxInterruptions == 1

\* ------------------------------------------------------------------ inputs
Workers == 1..MaxWorkers
\* the instants at which something happens: 0:00 and 10:30 minutes
Times == {0, 630000}
\* a nullable column or an optional argument: absent, or one value
Unset == << >>
Set(v) == <<v>>
\* the actualDuration argument of completeSession: not supplied, 0, a
\* negative number of minutes, a positive one
Overrides == {Unset, Set(0), Set(-10), Set(10)}
PlannedDurations == {25}

\* new Error(message)
Error(message) == [name |-> "Error", cause |-> message]
\* the errors of the operations that have no body in the sources
InvalidTransition == [name |-> "InvalidTransition", cause |-> "none"]
NotOwner == [name |-> "NotOwner", cause |-> "none"]
\* the error of a statement the database rejects, thrown on as it is
CheckViolation == [name |-> "QueryError", cause |-> "check_violation"]

\* --------------------------------------------------------------- the schema
\* focus_sessions: the CHECK constraints of the table
SessionRowAccepted(row) ==
  /\ row.plannedDuration >= 1
  /\ row.energyGenerated = Unset \/ row.energyGenerated[1] >= 0
  /\ \/ row.dopamineGenerated = Unset
     \/ row.dopamineGenerated = <<"NaN", "NaN">>
     \/ row.dopamineGenerated[1] >= 0
  /\ row.interruptionCount >= 0

\* an update that writes the given columns and resets the others that have
\* a default (status, interruption_count) to it
UpdateSession_reset(row, fields) ==
  [f \in DOMAIN row |->
     IF f \in DOMAIN fields THEN fields[f]
     ELSE IF f = "interruptionCount" THEN 0
     ELSE row[f]]

\* db.focusSessions.update(sessionId, fields): the row with the given
\* columns replaced
\* the update that writes every field but the status completed
UpdateSession_not_completed(row, fields) ==
  [f \in DOMAIN row |->
     IF f \in DOMAIN fields /\ ~(f = "status" /\ fields[f] = "completed")
       THEN fields[f] ELSE row[f]]

UpdateSession(row, fields) ==
  [f \in DOMAIN row |-> IF f \in DOMAIN fields THEN fields[f] ELSE row[f]]

\* validateSessionAccess without the comparison of the owner
validateSessionAccess_any_user(sessionId, userId) ==
  IF focus_sessions[sessionId] = NoRow THEN "Focus session not found"
  ELSE "ok"

\* ----------------------------------------------------- FocusSessionService
\* validateSessionAccess: the message of the error it throws, or "ok"
validateSessionAccess(sessionId, userId) ==
  IF focus_sessions[sessionId] = NoRow THEN "Focus session not found"
  ELSE IF focus_sessions[sessionId].userId # userId
    THEN "Access denied to focus session"
  ELSE "ok"

\* the status test of startSession accepting every session not yet ended
startSessionCheck_not_ended(session) ==
  IF session.status \in {"completed", "abandoned"}
    THEN "Session can only be started from planned status"
  ELSE "ok"

\* startSession: the status test on the session read
startSessionCheck(session) ==
  IF session.status # "planned"
    THEN "Session can only be started from planned status"
  ELSE "ok"

\* the status test of completeSession accepting paused sessions as well
completeSessionCheck_paused(session) ==
  IF session.status \notin {"active", "paused"}
    THEN "Only active sessions can be completed"
  ELSE "ok"

\* completeSession: the status test on the session read
completeSessionCheck(session) ==
  IF session.status # "active"
    THEN "Only active sessions can be completed"
  ELSE "ok"

\* completeSession: actualDuration || Math.floor((endTime - startTime) / 1000 / 60);
\* an argument that is undefined or 0 is falsy
ActualDuration(actualDuration, startTime, endTime) ==
  IF actualDuration # Unset /\ actualDuration[1] # 0
    THEN actualDuration[1]
    ELSE ((endTime - startTime) \div 1000) \div 60

Max(a, b) == IF a > b THEN a ELSE b

\* calculateEnergyEarned: categoryBonuses[session.task.category] || 1.0
categoryBonuses(category) ==
  CASE category = "analytical" -> D_1_2
    [] category = "creative" -> D_1_1
    [] category = "learning" -> D_1_15
    [] category = "physical" -> D_0_9
    [] OTHER -> D_1

\* calculateEnergyEarned with the interruption penalty not held at 0.5
calculateEnergyEarned_no_floor(session, duration) ==
  LET base == FromInt(duration)
      withCategory ==
        IF session.task # NULL
          THEN Multiply(base, categoryBonuses(session.task)) ELSE base
      with25 == IF duration >= 25 THEN Multiply(withCategory, D_1_1)
                ELSE withCategory
      with50 == IF duration >= 50 THEN Multiply(with25, D_1_2) ELSE with25
      baseEnergy ==
        IF session.interruptionCount > 0
          THEN Multiply(with50,
                 Minus(D_1, Multiply(FromInt(session.interruptionCount), D_0_1)))
          ELSE with50
  IN MathRound(Multiply(baseEnergy, D_100))

\* calculateEnergyEarned with Math.min in place of Math.max in the penalty
calculateEnergyEarned_min(session, duration) ==
  LET base == FromInt(duration)
      withCategory ==
        IF session.task # NULL
          THEN Multiply(base, categoryBonuses(session.task)) ELSE base
      with25 == IF duration >= 25 THEN Multiply(withCategory, D_1_1)
                ELSE withCategory
      with50 == IF duration >= 50 THEN Multiply(with25, D_1_2) ELSE with25
      penalty == Minus(D_1, Multiply(FromInt(session.interruptionCount), D_0_1))
      baseEnergy ==
        IF session.interruptionCount > 0
          THEN Multiply(with50,
                 IF penalty.s = -1 \/ LessThan(penalty, D_0_5)
                   THEN penalty ELSE D_0_5)
          ELSE with50
  IN MathRound(Multiply(baseEnergy, D_100))

\* calculateEnergyEarned, in hundredths of a unit: the duration as a double
\* times the category bonus, the two duration bonuses and the interruption
\* penalty, then Math.round(baseEnergy * 100); the division by 100 that
\* follows gives the double the column DECIMAL(10,2) stores as that many
\* hundredths
calculateEnergyEarned(session, duration) ==
  LET base == FromInt(duration)
      withCategory ==
        IF session.task # NULL
          THEN Multiply(base, categoryBonuses(session.task)) ELSE base
      with25 == IF duration >= 25 THEN Multiply(withCategory, D_1_1)
                ELSE withCategory
      with50 == IF duration >= 50 THEN Multiply(with25, D_1_2) ELSE with25
      baseEnergy ==
        IF session.interruptionCount > 0
          THEN Multiply(with50,
                 MathMax(D_0_5,
                   Minus(D_1, Multiply(FromInt(session.interruptionCount), D_0_1))))
          ELSE with50
  IN MathRound(Multiply(baseEnergy, D_100))

\* ------------------------------------------- tasks, modules, presets, cache
\* db.tasks: one task, of u1
TaskIds == {"t1"}
tasks == [t \in TaskIds |-> [userId |-> "u1", category |-> "analytical"]]

\* db.userModules.findByUserId(userId), mapped to the rows' moduleId
userModules(userId) == {r[2] : r \in {q \in user_modules : q[1] = userId}}

\* the module definitions: the type, the base dopamine generation in
\* ten-thousandths per minute and, for a multiplier, its factor in hundredths
ModuleIds == {"m1", "m2", "m3", "m4", "m5", "m6"}
modules ==
  [m \in ModuleIds |->
     CASE m = "m1" -> [type |-> "generator", baseDopamineGeneration |-> 500,
                       effect |-> 100]
       [] m = "m2" -> [type |-> "generator", baseDopamineGeneration |-> 1000,
                       effect |-> 100]
       [] m = "m3" -> [type |-> "multiplier", baseDopamineGeneration |-> 0,
                       effect |-> 150]
       [] m = "m4" -> [type |-> "generator", baseDopamineGeneration |-> 500,
                       effect |-> 100]
       [] m = "m5" -> [type |-> "generator", baseDopamineGeneration |-> 333,
                       effect |-> 100]
       [] OTHER -> [type |-> "generator", baseDopamineGeneration |-> 200,
                    effect |-> 100]]
\* user_modules.upgrade_level of the owner's instance of the module
upgradeLevel(m) == IF m = "m5" THEN 3 ELSE 1

\* one instance of a configuration: the module, the enabled flag, the
\* intensity 0..100 and the modules it is connected to
Instance(m, enabled, intensity, connections) ==
  [userModuleId |-> m, enabled |-> enabled, intensity |-> intensity,
   connections |-> connections]

\* the instances i and j of a configuration are connected
Connected(i, j) ==
  i.userModuleId \in j.connections \/ j.userModuleId \in i.connections

\* the factor given to every generator of a configuration that has an
\* enabled multiplier, connected to it or not
Synergy_every_generator(configuration, i) ==
  IF /\ modules[i.userModuleId].type = "generator"
     /\ \E k \in DOMAIN configuration :
          /\ configuration[k].enabled
          /\ modules[configuration[k].userModuleId].type = "multiplier"
    THEN modules["m3"].effect
    ELSE 100

\* the factor that the enabled multipliers connected to the generator i give
\* it, in hundredths (the module definitions have one multiplier, so at most
\* one factor applies)
Synergy(configuration, i) ==
  IF /\ modules[i.userModuleId].type = "generator"
     /\ \E k \in DOMAIN configuration :
          /\ configuration[k].enabled
          /\ modules[configuration[k].userModuleId].type = "multiplier"
          /\ Connected(i, configuration[k])
    THEN modules["m3"].effect
    ELSE 100

\* the contribution of one instance, in units of 10^-9 per minute:
\* baseDopamineGeneration * (1 + 0.1 * (upgradeLevel - 1)) * (intensity / 100)
\* and the factor of its multiplier; nothing for a disabled instance
Contribution(configuration, i) ==
  IF i.enabled
    THEN modules[i.userModuleId].baseDopamineGeneration
         * (10 + (upgradeLevel(i.userModuleId) - 1))
         * i.intensity * Synergy(configuration, i)
    ELSE 0

\* the aggregation with the multiplier applied to everything summed so far
RECURSIVE SumContributions_global(_, _)
SumContributions_global(configuration, n) ==
  IF n = 0 THEN 0
  ELSE LET i == configuration[n]
           before == SumContributions_global(configuration, n - 1)
       IN IF i.enabled /\ modules[i.userModuleId].type = "multiplier"
            THEN (before \div 100) * modules[i.userModuleId].effect
            ELSE before + (IF i.enabled
                             THEN modules[i.userModuleId].baseDopamineGeneration
                                  * (10 + (upgradeLevel(i.userModuleId) - 1))
                                  * i.intensity * 100
                             ELSE 0)

\* the sum of the contributions of the first n instances, in list order
RECURSIVE SumContributions(_, _)
SumContributions(configuration, n) ==
  IF n = 0 THEN 0
  ELSE SumContributions(configuration, n - 1)
       + Contribution(configuration, configuration[n])

\* the aggregated rate with the multiplier applied to the running sum
aggregate_global(configuration) ==
  (2 * SumContributions_global(configuration, Len(configuration)) + 100000)
    \div 200000

\* the aggregated rate in ten-thousandths per minute: the sum, rounded half
\* up once
aggregate(configuration) ==
  (2 * SumContributions(configuration, Len(configuration)) + 100000) \div 200000

\* db.modulePresets: an empty preset of u1, one with a module of u1, one with
\* a module of u1 and one of u2, and one that is not active; the rates are
\* in ten-thousandths per minute (DECIMAL(10,4))
PresetIds == {"p0", "p1", "p2", "p3"}
InitialPresets ==
  [p \in PresetIds |->
     CASE p = "p0" -> [userId |-> "u1", isActive |-> TRUE,
                       configuration |-> << >>,
                       dopamineGenerationRate |-> 0]
       [] p = "p1" -> [userId |-> "u1", isActive |-> TRUE,
                       configuration |-> <<Instance("m1", TRUE, 100, {})>>,
                       dopamineGenerationRate |-> 500]
       [] p = "p2" -> [userId |-> "u1", isActive |-> TRUE,
                       configuration |-> <<Instance("m1", TRUE, 100, {}),
                                           Instance("m2", TRUE, 100, {})>>,
                       dopamineGenerationRate |-> 1500]
       [] OTHER -> [userId |-> "u1", isActive |-> FALSE,
                    configuration |-> << >>,
                    dopamineGenerationRate |-> 0]]

\* the rates a preset that can be attached has, and the doubles JSON.parse
\* gives for them
Rates == {0, 500, 1000}
RateAsDouble(rate) ==
  CASE rate = 0 -> DoubleZero
    [] rate = 500 -> Double(1, <<6554, 9830, 6553, 1638>>, -57)
    [] rate = 1000 -> D_0_1

\* a number that is not a number: undefined * duration
NaN == <<"NaN", "NaN">>

\* redis.setex(`session:${id}`, seconds, JSON.stringify(value)): of the value
\* the model keeps dopamineGenerationRate, Unset when the value has no such
\* property
Setex(sessionId, seconds, dopamineGenerationRate) ==
  [redis EXCEPT ![sessionId] =
     [dopamineGenerationRate |-> dopamineGenerationRate,
      expiresAt |-> now + seconds * 1000]]

\* redis.get(`session:${id}`): null when there is no entry or it has expired
Get(sessionId) ==
  IF redis[sessionId] # NoRow /\ now < redis[sessionId].expiresAt
    THEN redis[sessionId] ELSE NoRow

\* redis.del(`session:${id}`)
Del(sessionId) == [redis EXCEPT ![sessionId] = NoRow]

\* router.post('/'): body('plannedDuration').isInt({ min: 1, max: 120 })
MinPlannedDuration == 1
MaxPlannedDuration == 120
\* CURRENCY_CONSTANTS.VALIDATION, which no code reads
MAX_SESSION_DURATION == 480
plannedDurationIsValid(plannedDuration) ==
  plannedDuration >= MinPlannedDuration /\ plannedDuration <= MaxPlannedDuration

\* the error of a request that validateRequest turns away
InvalidDuration == [name |-> "InvalidDuration", cause |-> "none"]

\* validateModuleConfiguration without the loop over the required modules
validateModuleConfiguration_no_modules(configId, userId) ==
  LET preset == module_presets[configId]
  IN IF preset.userId # userId
       THEN "Module configuration not found or access denied"
     ELSE IF ~preset.isActive THEN "Module configuration is not active"
     ELSE "ok"

\* validateModuleConfiguration: the message of the error it throws (without
\* the module id that ends the last one), or "ok"
validateModuleConfiguration(configId, userId) ==
  LET preset == module_presets[configId]
      userModuleIds == userModules(userId)
      requiredModuleIds ==
        {preset.configuration[i].userModuleId : i \in DOMAIN preset.configuration}
  IN IF preset.userId # userId
       THEN "Module configuration not found or access denied"
     ELSE IF ~preset.isActive THEN "Module configuration is not active"
     ELSE IF \E moduleId \in requiredModuleIds : moduleId \notin userModuleIds
       THEN "User does not own required module"
     ELSE "ok"

\* calculateDopamineEarned, in ten-thousandths of a unit: 0 without a module
\* configuration or without the cached session, else
\* Math.round(dopamineGenerationRate * duration * 10000), which is NaN when
\* the cached session has no dopamineGenerationRate
calculateDopamineEarned(session, duration, cachedSession) ==
  IF session.moduleConfigurationId = NULL THEN Set(0)
  ELSE IF cachedSession = NoRow THEN Set(0)
  ELSE IF cachedSession.dopamineGenerationRate = Unset THEN NaN
  ELSE Set(MathRound(Multiply(
         Multiply(RateAsDouble(cachedSession.dopamineGenerationRate[1]),
                  FromInt(duration)),
         D_10000)))

\* the amounts handed to processSessionRewards, which counts whole units:
\* the sessions of this model earn whole numbers of units
EnergyUnits(hundredths) == hundredths \div 100
DopamineUnits(tenThousandths) == tenThousandths \div 10000

\* the balance row of a user who has earned 9990 energy in earlier sessions
EarlierBalanceRow ==
  UpdateBalances(DefaultBalanceRow, ENERGY_MAX_BALANCE - 10, 0)

\* the database with one user who has earned 9990 energy in earlier
\* sessions and one whose balance row was never provisioned, no session and
\* no call
InitSession ==
  /\ user_currency_balances =
       [u \in UserIds |-> IF u = "u1" THEN EarlierBalanceRow ELSE NoRow]
  /\ currency_transactions =
       log_currency_transaction("u1", DefaultBalanceRow, EarlierBalanceRow)
  /\ rowLock = [u \in UserIds |-> 0]
  /\ pc = [c \in Workers |-> "idle"]
  /\ args = [c \in Workers |-> NoArgs]
  /\ currentBalances = [c \in Workers |-> NoRow]
  /\ pendingRow = [c \in Workers |-> NoRow]
  /\ pendingTx = [c \in Workers |-> << >>]
  /\ error = [c \in Workers |-> NoError]
  /\ focus_sessions = [s \in SessionIds |-> NoRow]
  /\ now = 0
  /\ request = [c \in Workers |-> NoArgs]
  /\ completion = [c \in Workers |-> NoArgs]
  /\ redis = [s \in SessionIds |-> NoRow]
  /\ module_presets = InitialPresets
  /\ user_modules = InitialUserModules
  /\ NoSyncQueue

ledgerVars == <<user_currency_balances, currency_transactions, rowLock,
                currentBalances, pendingRow, pendingTx>>

\* no call has settled without its response being sent: a settled promise
\* runs its continuation before any other event is handled
Quiet == \A c \in Workers : pc[c] \notin {"returned", "threw"}

\* time passes
Tick ==
  /\ Quiet
  /\ \E t \in Times : t > now /\ now' = t
  /\ UNCHANGED <<ledgerVars, pc, args, error, focus_sessions, request,
                 completion, redis, module_presets,
                 user_modules, syncVars>>

\* a worker takes a new call when it has none in progress; of the free
\* workers the first takes it
Free(c) ==
  /\ Quiet
  /\ pc[c] = "idle"
  /\ \A b \in Workers : b < c => pc[b] # "idle"

\* the arguments of a call of a session operation that is in progress
Request(op, sessionId, userId, actualDuration) ==
  [op |-> op, sessionId |-> sessionId, userId |-> userId,
   actualDuration |-> actualDuration]

\* the result of a settled call goes to the caller and the worker is free;
\* completeSession, once processSessionRewards has returned, first deletes
\* the cached session
Respond(c) ==
  /\ pc[c] \in {"returned", "threw"}
  /\ pc' = [pc EXCEPT ![c] = "idle"]
  /\ error' = [error EXCEPT ![c] = NoError]
  /\ args' = [args EXCEPT ![c] = NoArgs]
  /\ request' = [request EXCEPT ![c] = NoArgs]
  /\ redis' = IF pc[c] = "returned" /\ request[c] # NoArgs
                THEN Del(request[c].sessionId) ELSE redis
  /\ UNCHANGED <<ledgerVars, focus_sessions, now, completion, module_presets,
                 user_modules, syncVars>>

\* the call ends at once: it returns, or throws err
Finish(c, err) ==
  /\ pc' = [pc EXCEPT ![c] = IF err = NoError THEN "returned" ELSE "threw"]
  /\ error' = [error EXCEPT ![c] = err]
  /\ args' = [args EXCEPT ![c] = NoArgs]
  /\ request' = [request EXCEPT ![c] = NoArgs]
  /\ completion' = [completion EXCEPT ![c] = NoArgs]

\* POST /: the validation of the route, then createSession: the task and the
\* module configuration are validated, the session is created in status
\* planned with the id s and cached with the rate of the preset
createSession(c, s, u, taskId, moduleConfigurationId, plannedDuration) ==
  /\ Free(c)
  /\ focus_sessions[s] = NoRow
  /\ LET configuration ==
           IF moduleConfigurationId = NULL THEN "ok"
           ELSE validateModuleConfiguration(moduleConfigurationId, u)
         dopamineGenerationRate ==
           IF moduleConfigurationId = NULL THEN 0
           ELSE module_presets[moduleConfigurationId].dopamineGenerationRate
         session ==
           [userId |-> u,
            task |-> IF taskId = NULL THEN NULL ELSE tasks[taskId].category,
            moduleConfigurationId |-> moduleConfigurationId,
            plannedDuration |-> plannedDuration, status |-> "planned",
            startTime |-> now, endTime |-> Unset, actualDuration |-> Unset,
            energyGenerated |-> Unset, dopamineGenerated |-> Unset,
            interruptionCount |-> 0]
     IN IF ~plannedDurationIsValid(plannedDuration)
          THEN Finish(c, InvalidDuration) /\ UNCHANGED <<focus_sessions, redis>>
        ELSE IF taskId # NULL /\ tasks[taskId].userId # u
          THEN /\ Finish(c, Error("Task not found or access denied"))
               /\ UNCHANGED <<focus_sessions, redis>>
        ELSE IF configuration # "ok"
          THEN Finish(c, Error(configuration)) /\ UNCHANGED <<focus_sessions, redis>>
        ELSE IF ~SessionRowAccepted(session)
          THEN Finish(c, CheckViolation) /\ UNCHANGED <<focus_sessions, redis>>
        ELSE /\ focus_sessions' = [focus_sessions EXCEPT ![s] = session]
             /\ redis' = Setex(s, plannedDuration * 60, Set(dopamineGenerationRate))
             /\ Finish(c, NoError)
  /\ UNCHANGED <<ledgerVars, now, module_presets,
                 user_modules, syncVars>>

\* startSession up to its update: validateSessionAccess and the status test
startSession(c, s, u) ==
  /\ Free(c)
  /\ LET access == validateSessionAccess(s, u)
         failure == IF access # "ok" THEN access
                    ELSE startSessionCheck(focus_sessions[s])
     IN IF failure # "ok"
          THEN Finish(c, Error(failure))
          ELSE /\ pc' = [pc EXCEPT ![c] = "starting"]
               /\ request' = [request EXCEPT ![c] = Request("start", s, u, Unset)]
               /\ error' = [error EXCEPT ![c] = NoError]
               /\ args' = [args EXCEPT ![c] = NoArgs]
               /\ UNCHANGED completion
  /\ UNCHANGED <<ledgerVars, focus_sessions, now, redis, module_presets,
                 user_modules, syncVars>>

\* startSession: await db.focusSessions.update(...), the updated session
\* cached again (the value has no dopamineGenerationRate), then it returns
StartSessionUpdate(c) ==
  /\ Quiet
  /\ pc[c] = "starting"
  /\ LET s == request[c].sessionId
         updatedSession == UpdateSession(focus_sessions[s],
                             [status |-> "active", startTime |-> now])
     IN /\ focus_sessions' = [focus_sessions EXCEPT ![s] = updatedSession]
        /\ redis' = Setex(s, updatedSession.plannedDuration * 60, Unset)
  /\ Finish(c, NoError)
  /\ UNCHANGED <<ledgerVars, now, module_presets,
                 user_modules, syncVars>>

\* pauseSession, as the specification describes it (one serialized step):
\* active -> paused, one more interruption
pauseSession(c, s, u) ==
  /\ Free(c)
  /\ focus_sessions[s] # NoRow
  /\ IF focus_sessions[s].userId # u
       THEN Finish(c, NotOwner) /\ UNCHANGED focus_sessions
     ELSE IF focus_sessions[s].status # "active"
       THEN Finish(c, InvalidTransition) /\ UNCHANGED focus_sessions
     ELSE /\ focus_sessions[s].interruptionCount < MaxInterruptions
          /\ focus_sessions' = [focus_sessions EXCEPT ![s] =
               UpdateSession(@, [status |-> "paused",
                 interruptionCount |-> @.interruptionCount + 1])]
          /\ Finish(c, NoError)
  /\ UNCHANGED <<ledgerVars, now, redis, module_presets,
                 user_modules, syncVars>>

\* resumeSession, as the specification describes it: paused -> active
resumeSession(c, s, u) ==
  /\ Free(c)
  /\ focus_sessions[s] # NoRow
  /\ IF focus_sessions[s].userId # u
       THEN Finish(c, NotOwner) /\ UNCHANGED focus_sessions
     ELSE IF focus_sessions[s].status # "paused"
       THEN Finish(c, InvalidTransition) /\ UNCHANGED focus_sessions
     ELSE /\ focus_sessions' = [focus_sessions EXCEPT ![s] =
               UpdateSession(@, [status |-> "active"])]
          /\ Finish(c, NoError)
  /\ UNCHANGED <<ledgerVars, now, redis, module_presets,
                 user_modules, syncVars>>

\* abandonSession, as the specification describes it: any status that is not
\* terminal -> abandoned, with the end timestamp; nothing goes to the ledger
abandonSession(c, s, u) ==
  /\ Free(c)
  /\ focus_sessions[s] # NoRow
  /\ IF focus_sessions[s].userId # u
       THEN Finish(c, NotOwner) /\ UNCHANGED focus_sessions
     ELSE IF focus_sessions[s].status \in {"completed", "abandoned"}
       THEN Finish(c, InvalidTransition) /\ UNCHANGED focus_sessions
     ELSE /\ focus_sessions' = [focus_sessions EXCEPT ![s] =
               UpdateSession(@, [status |-> "abandoned",
                                 endTime |-> Set(now)])]
          /\ Finish(c, NoError)
  /\ UNCHANGED <<ledgerVars, now, redis, module_presets,
                 user_modules, syncVars>>

\* completeSession up to its update: validateSessionAccess, the status test,
\* endTime, the duration and the two rewards
completeSession(c, s, u, actualDuration) ==
  /\ Free(c)
  /\ LET access == validateSessionAccess(s, u)
         failure == IF access # "ok" THEN access
                    ELSE completeSessionCheck(focus_sessions[s])
         session == focus_sessions[s]
         endTime == now
         duration == ActualDuration(actualDuration, session.startTime, endTime)
     IN IF failure # "ok"
          THEN Finish(c, Error(failure))
          ELSE /\ pc' = [pc EXCEPT ![c] = "completing"]
               /\ request' = [request EXCEPT ![c] =
                    Request("complete", s, u, actualDuration)]
               /\ completion' = [completion EXCEPT ![c] =
                    [startTime |-> session.startTime,
                     endTime |-> endTime, duration |-> duration,
                     energyEarned |-> calculateEnergyEarned(session, duration),
                     dopamineEarned |->
                       calculateDopamineEarned(session, duration, Get(s))]]
               /\ error' = [error EXCEPT ![c] = NoError]
               /\ args' = [args EXCEPT ![c] = NoArgs]
  /\ UNCHANGED <<ledgerVars, focus_sessions, now, redis, module_presets,
                 user_modules, syncVars>>

\* completeSession: await db.focusSessions.update(...), which a CHECK
\* constraint can reject, then the call of processSessionRewards (BEGIN)
CompleteSessionUpdate(c) ==
  /\ Quiet
  /\ pc[c] = "completing"
  /\ LET s == request[c].sessionId
         dopamineEarned == completion[c].dopamineEarned
         new == UpdateSession(focus_sessions[s],
                  [status |-> "completed",
                   endTime |-> Set(completion[c].endTime),
                   actualDuration |-> Set(completion[c].duration),
                   energyGenerated |-> Set(completion[c].energyEarned),
                   dopamineGenerated |-> dopamineEarned])
     IN IF SessionRowAccepted(new)
          THEN /\ focus_sessions' = [focus_sessions EXCEPT ![s] = new]
               /\ args' = [args EXCEPT ![c] =
                    [userId |-> request[c].userId,
                     energyAmount |-> EnergyUnits(completion[c].energyEarned),
                     dopamineAmount |->
                       IF dopamineEarned = NaN THEN NaN
                       ELSE DopamineUnits(dopamineEarned[1]),
                     sessionId |-> s]]
               /\ pc' = [pc EXCEPT ![c] = "begun"]
               /\ completion' = [completion EXCEPT ![c] = NoArgs]
               /\ UNCHANGED <<error, request>>
          ELSE Finish(c, CheckViolation) /\ UNCHANGED focus_sessions
  /\ UNCHANGED <<ledgerVars, now, redis, module_presets,
                 user_modules, syncVars>>

\* one session without task and module configuration is followed; the steps
\* of processSessionRewards are those of the call made by completeSession
NextSession ==
  \/ Tick
  \/ \E c \in Workers, u \in UserIds, d \in PlannedDurations :
       createSession(c, "s1", u, NULL, NULL, d)
  \/ \E c \in Workers, s \in SessionIds, u \in UserIds : startSession(c, s, u)
  \/ \E c \in Workers : StartSessionUpdate(c)
  \/ \E c \in Workers, s \in SessionIds, u \in UserIds : pauseSession(c, s, u)
  \/ \E c \in Workers, s \in SessionIds, u \in UserIds : resumeSession(c, s, u)
  \/ \E c \in Workers, s \in SessionIds, u \in UserIds : abandonSession(c, s, u)
  \/ \E c \in Workers, s \in SessionIds, u \in UserIds, d \in Overrides :
       completeSession(c, s, u, d)
  \/ \E c \in Workers : CompleteSessionUpdate(c)
  \/ \E c \in Workers : Quiet /\ Lock(c)
  \/ \E c \in Workers : Quiet /\ LockUserNotFound(c)
  \/ \E c \in Workers : Quiet /\ RejectRewards(c)
  \/ \E c \in Workers : Quiet /\ Update(c)
  \/ \E c \in Workers : Quiet /\ Commit(c)
  \/ \E c \in Workers : Quiet /\ Fail(c)
  \/ \E c \in Workers : Respond(c)

SpecSession == InitSession /\ [][NextSession]_vars

\* -------------------------------------------- requests served one at a time
\* PUT /presets/{presetId}: the owner saves the preset with another
\* configuration, and its stored rate is the aggregated rate of that
\* configuration
SavePreset(p, configuration) ==
  /\ Quiet
  /\ configuration # module_presets[p].configuration
  /\ module_presets' = [module_presets EXCEPT ![p] =
       [@ EXCEPT !.configuration = configuration,
                 !.dopamineGenerationRate = aggregate(configuration)]]
  /\ UNCHANGED <<ledgerVars, pc, args, error, focus_sessions, now, request,
                 completion, redis, user_modules, syncVars>>

\* the configurations the owner of p1 changes between: the module m1 alone,
\* and m1 with m4
SerialConfigurations ==
  {<<Instance("m1", TRUE, 100, {})>>,
   <<Instance("m1", TRUE, 100, {}), Instance("m4", TRUE, 100, {})>>}

\* the session of the credit in progress was completed with NaN dopamine
CreditsNaN(c) ==
  /\ args[c] # NoArgs
  /\ focus_sessions[args[c].sessionId].dopamineGenerated = NaN

\* Update when processSessionRewards was called with NaN dopamine: the
\* checks look at the energy only, and dopamine_balance + NaN is NaN, which
\* a numeric column takes whatever its width and which is >= 0 for the CHECK
UpdateNaN(c) ==
  /\ pc[c] = "locked"
  /\ CreditsNaN(c)
  /\ ValidateRewards(currentBalances[c], args[c].energyAmount, 0) = "ok"
  /\ rowLock[args[c].userId] = c
  /\ LET u == args[c].userId
         old == user_currency_balances[u]
         energy == UpdateBalances(old, args[c].energyAmount, 0)
         new == [energy EXCEPT !.dopamine_balance = NaN,
                               !.total_dopamine_earned = NaN]
     IN IF BalanceRowAccepted(energy)
          THEN /\ pendingRow' = [pendingRow EXCEPT ![c] = new]
               /\ pendingTx' = [pendingTx EXCEPT ![c] =
                    [i \in DOMAIN log_currency_transaction(u, old, energy) |->
                       [log_currency_transaction(u, old, energy)[i]
                          EXCEPT !.balance_after_dopamine = NaN]]
                    \o << [user_id |-> u, transaction_type |-> "balance_update",
                           energy_amount |-> 0, dopamine_amount |-> NaN,
                           balance_after_energy |-> new.energy_balance,
                           balance_after_dopamine |-> NaN,
                           reference_id |-> NULL, reference_type |-> NULL] >>]
               /\ pc' = [pc EXCEPT ![c] = "updated"]
               /\ UNCHANGED <<user_currency_balances, currency_transactions,
                              rowLock, error, currentBalances>>
          ELSE Abort(c, "constraint")
  /\ UNCHANGED <<args, sessionVars>>

\* the planned durations a client sends: around the limits of the route and
\* of MAX_SESSION_DURATION
SerialDurations == {0, 1, 120, 121, 480, 481}

\* one worker serves the requests one after the other; the session s1 is
\* followed, with or without a task and a module configuration
NextSerial ==
  \/ Tick
  \/ \E u \in UserIds, t \in {NULL} \cup TaskIds, p \in {NULL} \cup PresetIds,
        d \in SerialDurations :
       createSession(1, "s1", u, t, p, d)
  \/ \E s \in SessionIds, u \in UserIds : startSession(1, s, u)
  \/ StartSessionUpdate(1)
  \/ \E s \in SessionIds, u \in UserIds : pauseSession(1, s, u)
  \/ \E s \in SessionIds, u \in UserIds : resumeSession(1, s, u)
  \/ \E s \in SessionIds, u \in UserIds : abandonSession(1, s, u)
  \/ \E s \in SessionIds, u \in UserIds, d \in Overrides :
       completeSession(1, s, u, d)
  \/ CompleteSessionUpdate(1)
  \/ Quiet /\ Lock(1)
  \/ Quiet /\ LockUserNotFound(1)
  \/ Quiet /\ ~CreditsNaN(1) /\ RejectRewards(1)
  \/ Quiet /\ ~CreditsNaN(1) /\ Update(1)
  \/ Quiet /\ UpdateNaN(1)
  \/ Quiet /\ Commit(1)
  \/ Quiet /\ Fail(1)
  \/ Respond(1)
  \/ \E configuration \in SerialConfigurations :
       SavePreset("p1", configuration)

SpecSerial == InitSession /\ [][NextSerial]_vars

\* ------------------------------------------------------- the aggregation
\* the longest configuration, and the intensities of an instance
MaxInstances == 3
Intensities == {40, 100}

\* the instances u1 can make of a module: enabled or not, at an intensity,
\* a generator connected to the multiplier m3 or not, the multiplier
\* connected to the generator m1 or not
InstancesOf(m) ==
  {Instance(m, enabled, intensity, connections) :
     enabled \in BOOLEAN, intensity \in Intensities,
     connections \in {{}, IF m = "m3" THEN {"m1"} ELSE {"m3"}}}

\* the configuration with one more instance, of a module it does not have
\* yet, or without its last instance
Changed(configuration) ==
  (IF Len(configuration) < MaxInstances
     THEN {Append(configuration, i) :
             i \in UNION {InstancesOf(m) :
                            m \in userModules("u1") \
                              {configuration[k].userModuleId :
                                 k \in DOMAIN configuration}}}
     ELSE {})
  \cup
  (IF configuration # << >>
     THEN {SubSeq(configuration, 1, Len(configuration) - 1)}
     ELSE {})

\* u1 saves the preset p1 with an instance added or removed
NextAggregate ==
  \E configuration \in Changed(module_presets["p1"].configuration) :
    SavePreset("p1", configuration)

SpecAggregate == InitSession /\ [][NextAggregate]_vars

\* ================================================================ SyncQueue
\* SyncQueue: the operations are numbered in the order they are added.  A
\* step runs until the next await: a call of processQueue shifts the head of
\* the queue and awaits its execution, and when the execution settles the
\* run either goes on with the next head or ends.
MaxOperations == 3

\* everything but the SyncQueue
serviceVars == <<user_currency_balances, currency_transactions, rowLock, pc,
                 args, currentBalances, pendingRow, pendingTx, error,
                 focus_sessions, now, request, completion, redis,
                 module_presets, user_modules>>

\* processQueue up to its first await, on the queue q with the operations
\* inExecution awaited by other runs: while (queue.length > 0 && isOnline)
\* shifts the head and awaits its execution
processQueue(q, inExecution) ==
  IF q # << >> /\ isOnline'
    THEN /\ queue' = Tail(q)
         /\ executing' = inExecution \cup {Head(q)}
    ELSE /\ queue' = q
         /\ executing' = inExecution

\* addOperation(operation): push, and processQueue when online; the
\* operation has the number after those added so far
addOperation(operation) ==
  /\ operation = Len(queue) + Cardinality(executing) + Len(executed) + 1
  /\ operation <= MaxOperations
  /\ isOnline' = isOnline
  /\ IF isOnline
       THEN processQueue(Append(queue, operation), executing)
       ELSE /\ queue' = Append(queue, operation)
            /\ executing' = executing
  /\ UNCHANGED <<executed, serviceVars>>

\* setOnlineStatus(status): processQueue when the status is online
setOnlineStatus(status) ==
  /\ isOnline' = status
  /\ IF status
       THEN processQueue(queue, executing)
       ELSE UNCHANGED <<queue, executing>>
  /\ UNCHANGED <<executed, serviceVars>>

\* await this.executeOperation(operation) returns: the run goes round its
\* loop again
ExecutionSucceeds(operation) ==
  /\ operation \in executing
  /\ executed' = Append(executed, operation)
  /\ isOnline' = isOnline
  /\ processQueue(queue, executing \ {operation})
  /\ UNCHANGED serviceVars

\* await this.executeOperation(operation) throws: unshift, break
ExecutionFails(operation) ==
  /\ operation \in executing
  /\ queue' = <<operation>> \o queue
  /\ executing' = executing \ {operation}
  /\ UNCHANGED <<isOnline, executed, serviceVars>>

NextSync ==
  \/ \E operation \in 1..MaxOperations : addOperation(operation)
  \/ \E status \in BOOLEAN : setOnlineStatus(status)
  \/ \E operation \in 1..MaxOperations : ExecutionSucceeds(operation)
  \/ \E operation \in 1..MaxOperations : ExecutionFails(operation)

SpecSync == Init /\ [][NextSync]_vars

\* ----------------------------------------------------------- reconciliation
\* the transaction rows that record the reward of session s
RewardTransactions(s) ==
  {i \in DOMAIN currency_transactions :
     /\ currency_transactions[i].reference_id = s
     /\ currency_transactions[i].transaction_type = "focus_session_reward"}

\* the reconciliation job, as the specification describes it: for a session
\* that is completed and has no reward transaction it calls
\* processSessionRewards again with the session's recorded rewards
RetryCredit(c) ==
  /\ Free(c)
  /\ \E s \in SessionIds :
       /\ focus_sessions[s] # NoRow
       /\ focus_sessions[s].status = "completed"
       /\ RewardTransactions(s) = {}
       /\ args' = [args EXCEPT ![c] =
            [userId |-> focus_sessions[s].userId,
             energyAmount |-> EnergyUnits(focus_sessions[s].energyGenerated[1]),
             dopamineAmount |-> DopamineUnits(focus_sessions[s].dopamineGenerated[1]),
             sessionId |-> s]]
  /\ pc' = [pc EXCEPT ![c] = "begun"]
  /\ error' = [error EXCEPT ![c] = NoError]
  /\ UNCHANGED <<ledgerVars, focus_sessions, now, request, completion, redis,
                 module_presets,
                 user_modules, syncVars>>

\* the last instant of Times: the ledger fails only before it
Outage == \E t \in Times : t > now

\* a session of the user who has a balance row, from its creation to its
\* completion, with the reconciliation job retrying its credit
NextReconcile ==
  \/ Tick
  \/ \E c \in Workers, d \in PlannedDurations :
       createSession(c, "s1", "u1", NULL, NULL, d)
  \/ \E c \in Workers, s \in SessionIds, u \in UserIds : startSession(c, s, u)
  \/ \E c \in Workers : StartSessionUpdate(c)
  \/ \E c \in Workers, s \in SessionIds, u \in UserIds, d \in Overrides :
       completeSession(c, s, u, d)
  \/ \E c \in Workers : CompleteSessionUpdate(c)
  \/ \E c \in Workers : Quiet /\ Lock(c)
  \/ \E c \in Workers : Quiet /\ RejectRewards(c)
  \/ \E c \in Workers : Quiet /\ Update(c)
  \/ \E c \in Workers : Quiet /\ Commit(c)
  \/ \E c \in Workers : Quiet /\ Outage /\ Fail(c)
  \/ \E c \in Workers : Respond(c)
  \/ \E c \in Workers : RetryCredit(c)

\* the next step of the call on worker c, a failure apart
Continue(c) ==
  \/ StartSessionUpdate(c)
  \/ CompleteSessionUpdate(c)
  \/ Quiet /\ (Lock(c) \/ RejectRewards(c) \/ Update(c) \/ Commit(c))
  \/ Respond(c)

\* every call in progress takes its next step however many new calls arrive,
\* the job retries as long as it finds a session, and time passes until the
\* ledger has stopped failing
FairReconcile ==
  /\ SF_vars(Tick)
  /\ \A c \in Workers : SF_vars(Continue(c)) /\ SF_vars(RetryCredit(c))

SpecReconcile == InitSession /\ [][NextReconcile]_vars /\ FairReconcile

\* ------------------------------------------------------- the reward formula
\* calculateEnergyEarned applied to every session and duration of a range
MaxDuration == 55
MaxCount == 12

Categories == {NULL, "analytical", "creative", "learning", "physical"}

\* an active session of u1 with the given task category and interruptions
ActiveSession(category, count) ==
  [userId |-> "u1", task |-> category, moduleConfigurationId |-> NULL,
   plannedDuration |-> 25, status |-> "active",
   startTime |-> 0, endTime |-> Unset, actualDuration |-> Unset,
   energyGenerated |-> Unset, dopamineGenerated |-> Unset,
   interruptionCount |-> count]

\* one active session, and on every worker a complete call for it with the
\* same actualDuration argument
InitCalc ==
  /\ user_currency_balances =
       [u \in UserIds |-> IF u = "u1" THEN EarlierBalanceRow ELSE NoRow]
  /\ currency_transactions =
       log_currency_transaction("u1", DefaultBalanceRow, EarlierBalanceRow)
  /\ rowLock = [u \in UserIds |-> 0]
  /\ pc = [c \in Workers |-> "idle"]
  /\ args = [c \in Workers |-> NoArgs]
  /\ currentBalances = [c \in Workers |-> NoRow]
  /\ pendingRow = [c \in Workers |-> NoRow]
  /\ pendingTx = [c \in Workers |-> << >>]
  /\ error = [c \in Workers |-> NoError]
  /\ \E category \in Categories, count \in 0..MaxCount :
       focus_sessions = [s \in SessionIds |->
         IF s = "s1" THEN ActiveSession(category, count) ELSE NoRow]
  /\ now = 0
  /\ \E duration \in 0..MaxDuration :
       request = [c \in Workers |->
         Request("complete", "s1", "u1", Set(duration))]
  /\ completion = [c \in Workers |-> NoArgs]
  /\ redis = [s \in SessionIds |-> NoRow]
  /\ module_presets = InitialPresets
  /\ user_modules = InitialUserModules
  /\ NoSyncQueue

\* completeSession: const energyEarned = this.calculateEnergyEarned(session,
\* duration), for the session and the duration of the call on worker c
CalculateEnergy(c) ==
  /\ completion[c] = NoArgs
  /\ LET session == focus_sessions[request[c].sessionId]
         duration == ActualDuration(request[c].actualDuration,
                                    session.startTime, now)
     IN completion' = [completion EXCEPT ![c] =
          [startTime |-> session.startTime, endTime |-> now,
           duration |-> duration,
           energyEarned |-> calculateEnergyEarned(session, duration),
           dopamineEarned |-> Set(0)]]
  /\ UNCHANGED <<ledgerVars, pc, args, error, focus_sessions, now, request,
                 redis, module_presets,
                 user_modules, syncVars>>

NextCalc == \E c \in Workers : CalculateEnergy(c)

SpecCalc == InitCalc /\ [][NextCalc]_vars

\* ------------------------------------------ the routine of the shared code
\* CATEGORY_BONUSES, in hundredths: the table is used by calculateEnergy but
\* is not part of the sources
CATEGORY_BONUSES(category) ==
  CASE category = "analytical" -> 120
    [] category = "creative" -> 110
    [] category = "learning" -> 115
    [] category = "physical" -> 90
    [] OTHER -> 0

\* calculateEnergy, in hundredths: new Decimal(duration) times
\* CATEGORY_BONUSES[session.task?.category] || 1, to 2 decimal places.  A
\* Decimal is immutable: withBonus.mul(1.1) returns a new Decimal, which the
\* routine drops, so the duration bonus is not in the result.
calculateEnergy(session, duration) ==
  LET categoryBonus == IF CATEGORY_BONUSES(session.task) # 0
                         THEN CATEGORY_BONUSES(session.task) ELSE 100
      withBonus == duration * categoryBonus
      dropped == IF duration >= 25 THEN (withBonus * 11) \div 10 ELSE withBonus
  IN withBonus

\* calculateEnergy(session, duration) for the session and the duration of the
\* call on worker c
CalculateEnergyDecimal(c) ==
  /\ completion[c] = NoArgs
  /\ LET session == focus_sessions[request[c].sessionId]
         duration == ActualDuration(request[c].actualDuration,
                                    session.startTime, now)
     IN completion' = [completion EXCEPT ![c] =
          [startTime |-> session.startTime, endTime |-> now,
           duration |-> duration,
           energyEarned |-> calculateEnergy(session, duration),
           dopamineEarned |-> Set(0)]]
  /\ UNCHANGED <<ledgerVars, pc, args, error, focus_sessions, now, request,
                 redis, module_presets,
                 user_modules, syncVars>>

\* the energy of a session is calculated by either routine
NextEnergy ==
  \/ \E c \in Workers : CalculateEnergy(c)
  \/ \E c \in Workers : CalculateEnergyDecimal(c)

SpecEnergy == InitCalc /\ [][NextEnergy]_vars

\* ========================================================= purchaseModule
\* purchaseModule running inside db.transaction: the steps of a call are the
\* statements it awaits.  The transaction runs at the default isolation
\* level of PostgreSQL, READ COMMITTED: a SELECT takes no lock, an UPDATE
\* waits for the row lock and then works on the latest committed version of
\* the row.

\* modules.base_energy_cost
base_energy_cost(m) ==
  CASE m = "m1" -> 60
    [] m = "m4" -> 40
    [] OTHER -> 100

\* u1 has earned 100 energy and owns no module yet, u2 has no balance row
InitPurchase ==
  /\ user_currency_balances =
       [u \in UserIds |->
          IF u = "u1" THEN UpdateBalances(DefaultBalanceRow, 100, 0) ELSE NoRow]
  /\ currency_transactions =
       log_currency_transaction("u1", DefaultBalanceRow,
                                UpdateBalances(DefaultBalanceRow, 100, 0))
  /\ rowLock = [u \in UserIds |-> 0]
  /\ pc = [c \in Calls |-> "idle"]
  /\ args = [c \in Calls |-> NoArgs]
  /\ currentBalances = [c \in Calls |-> NoRow]
  /\ pendingRow = [c \in Calls |-> NoRow]
  /\ pendingTx = [c \in Calls |-> << >>]
  /\ error = [c \in Calls |-> NoError]
  /\ focus_sessions = [s \in SessionIds |-> NoRow]
  /\ now = 0
  /\ request = [c \in Calls |-> NoArgs]
  /\ completion = [c \in Calls |-> NoArgs]
  /\ redis = [s \in SessionIds |-> NoRow]
  /\ module_presets = << >>
  /\ user_modules = {}
  /\ NoSyncQueue

\* purchaseModule is called; pool.connect() and BEGIN
purchaseModule(c, userId, moduleId) ==
  /\ pc[c] = "idle"
  /\ \A b \in Calls : b < c => pc[b] # "idle"
  /\ args' = [args EXCEPT ![c] = [userId |-> userId, moduleId |-> moduleId]]
  /\ pc' = [pc EXCEPT ![c] = "purchase begun"]
  /\ UNCHANGED <<user_currency_balances, currency_transactions, rowLock,
                 currentBalances, pendingRow, pendingTx, error, sessionVars>>

\* SELECT energy_balance FROM user_currency_balances WHERE user_id = $1
SelectBalance(c) ==
  /\ pc[c] = "purchase begun"
  /\ currentBalances' =
       [currentBalances EXCEPT ![c] = user_currency_balances[args[c].userId]]
  /\ pc' = [pc EXCEPT ![c] = "balance read"]
  /\ UNCHANGED <<user_currency_balances, currency_transactions, rowLock, args,
                 pendingRow, pendingTx, error, sessionVars>>

\* the transaction of a purchase ends without COMMIT: the error goes to the
\* caller as it is, after ROLLBACK
PurchaseAbort(c, thrown) ==
  /\ pc' = [pc EXCEPT ![c] = "threw"]
  /\ error' = [error EXCEPT ![c] = thrown]
  /\ user_currency_balances' =
       IF pendingRow[c] = NoRow THEN user_currency_balances
       ELSE [user_currency_balances EXCEPT ![args[c].userId] =
               transaction(@, pendingRow[c], FALSE)]
  /\ currency_transactions' =
       transaction(currency_transactions, currency_transactions \o pendingTx[c], FALSE)
  /\ rowLock' = [u \in UserIds |-> IF rowLock[u] = c THEN 0 ELSE rowLock[u]]
  /\ pendingRow' = [pendingRow EXCEPT ![c] = NoRow]
  /\ pendingTx' = [pendingTx EXCEPT ![c] = << >>]
  /\ UNCHANGED <<args, currentBalances, sessionVars>>

\* SELECT base_energy_cost FROM modules, then the test of the balance read:
\* balance.rows[0] is undefined when the user has no balance row, and
\* reading its column throws a TypeError
CheckBalance(c) ==
  /\ pc[c] = "balance read"
  /\ IF currentBalances[c] = NoRow
       THEN PurchaseAbort(c, [name |-> "TypeError", cause |-> "none"])
     ELSE IF currentBalances[c].energy_balance
               < base_energy_cost(args[c].moduleId)
       THEN PurchaseAbort(c, Error("Insufficient energy"))
     ELSE /\ pc' = [pc EXCEPT ![c] = "balance checked"]
          /\ UNCHANGED <<user_currency_balances, currency_transactions,
                         rowLock, args, currentBalances, pendingRow,
                         pendingTx, error, sessionVars>>

\* the UPDATE computing the new balance from the balance read by the SELECT
DeductCost_from_read(row, read, cost) ==
  [row EXCEPT !.energy_balance = read.energy_balance - cost]

\* UPDATE user_currency_balances SET energy_balance = energy_balance - $1:
\* the new version of the row
DeductCost(row, read, cost) ==
  [row EXCEPT !.energy_balance = @ - cost]

\* await client.query(UPDATE ...): waits while another transaction holds the
\* row lock, then updates the committed row; the CHECK constraints and the
\* trigger apply
UpdateBalance(c) ==
  /\ pc[c] = "balance checked"
  /\ rowLock[args[c].userId] = 0
  /\ LET u == args[c].userId
         old == user_currency_balances[u]
         new == DeductCost(old, currentBalances[c],
                           base_energy_cost(args[c].moduleId))
     IN IF BalanceRowAccepted(new)
          THEN /\ rowLock' = [rowLock EXCEPT ![u] = c]
               /\ pendingRow' = [pendingRow EXCEPT ![c] = new]
               /\ pendingTx' = [pendingTx EXCEPT ![c] =
                                  log_currency_transaction(u, old, new)]
               /\ pc' = [pc EXCEPT ![c] = "balance updated"]
               /\ UNCHANGED <<user_currency_balances, currency_transactions,
                              error, args, currentBalances, sessionVars>>
          ELSE PurchaseAbort(c, CheckViolation)

\* INSERT INTO user_modules (user_id, module_id): UNIQUE(user_id, module_id)
InsertUserModule(c) ==
  /\ pc[c] = "balance updated"
  /\ IF <<args[c].userId, args[c].moduleId>> \in user_modules
       THEN PurchaseAbort(c, [name |-> "QueryError",
                              cause |-> "unique_violation"])
       ELSE /\ pc' = [pc EXCEPT ![c] = "module inserted"]
            /\ UNCHANGED <<user_currency_balances, currency_transactions,
                           rowLock, args, currentBalances, pendingRow,
                           pendingTx, error, sessionVars>>

\* COMMIT: the balance row, the trigger's rows and the owned module become
\* visible together
CommitPurchase(c) ==
  /\ pc[c] = "module inserted"
  /\ user_currency_balances' =
       [user_currency_balances EXCEPT ![args[c].userId] =
          transaction(@, pendingRow[c], TRUE)]
  /\ currency_transactions' =
       transaction(currency_transactions, currency_transactions \o pendingTx[c], TRUE)
  /\ user_modules' =
       user_modules \cup {<<args[c].userId, args[c].moduleId>>}
  /\ rowLock' = [u \in UserIds |-> IF rowLock[u] = c THEN 0 ELSE rowLock[u]]
  /\ pendingRow' = [pendingRow EXCEPT ![c] = NoRow]
  /\ pendingTx' = [pendingTx EXCEPT ![c] = << >>]
  /\ pc' = [pc EXCEPT ![c] = "returned"]
  /\ UNCHANGED <<args, currentBalances, error, focus_sessions, now, request,
                 completion, redis, module_presets, syncVars>>

NextPurchase ==
  \/ \E c \in Calls, u \in UserIds, m \in {"m1", "m2", "m4"} :
       purchaseModule(c, u, m)
  \/ \E c \in Calls : SelectBalance(c)
  \/ \E c \in Calls : CheckBalance(c)
  \/ \E c \in Calls : UpdateBalance(c)
  \/ \E c \in Calls : InsertUserModule(c)
  \/ \E c \in Calls : CommitPurchase(c)

SpecPurchase == InitPurchase /\ [][NextPurchase]_vars

\* ================================================================== claims
Returned(c) == pc[c] = "returned"
JustReturned(c) == pc[c] # "returned" /\ pc'[c] = "returned"
JustThrew(c) == pc[c] # "threw" /\ pc'[c] = "threw"
Paid(c) == Returned(c) /\ (args[c].energyAmount # 0 \/ args[c].dopamineAmount # 0)
CreditsOf(u) == {c \in Calls : Returned(c) /\ args[c].userId = u}

RECURSIVE SumEnergy(_)
SumEnergy(S) ==
  IF S = {} THEN 0
  ELSE LET c == CHOOSE x \in S : TRUE
       IN args[c].energyAmount + SumEnergy(S \ {c})

RECURSIVE SumDopamine(_)
SumDopamine(S) ==
  IF S = {} THEN 0
  ELSE LET c == CHOOSE x \in S : TRUE
       IN args[c].dopamineAmount + SumDopamine(S \ {c})

\* the audit rows of one user, in commit order
TransactionsOf(u) == SelectSeq(currency_transactions, LAMBDA r : r.user_id = u)

\* C1: a call that returns after an earlier call with the same userId,
\* sessionId and amounts has returned changes neither the balance rows nor
\* the transaction rows.
C1_SecondCreditChangesNothing ==
  [][\A c \in Calls :
       (JustReturned(c) /\ \E b \in Calls \ {c} : Returned(b) /\ args[b] = args[c])
         => /\ user_currency_balances' = user_currency_balances
            /\ currency_transactions' = currency_transactions]_vars

\* C2: for every session there is at most one transaction row with
\* reference = the session and type = focus_session_reward, and at most one
\* committed credit has paid the session.
C2_NoSessionPaidTwice ==
  \A s \in SessionIds :
    /\ Cardinality({i \in DOMAIN currency_transactions :
                      /\ currency_transactions[i].reference_id = s
                      /\ currency_transactions[i].transaction_type
                           = "focus_session_reward"}) <= 1
    /\ Cardinality({c \in Calls : Paid(c) /\ args[c].sessionId = s}) <= 1

\* C3: whatever the interleaving of the calls' steps, a user's energy and
\* dopamine balances are the initial balance 0 plus the sums of the amounts of
\* the calls for that user that have returned.
C3_BalanceIsSumOfCredits ==
  \A u \in UserIds :
    user_currency_balances[u] # NoRow =>
      /\ user_currency_balances[u].energy_balance = SumEnergy(CreditsOf(u))
      /\ user_currency_balances[u].dopamine_balance = SumDopamine(CreditsOf(u))

\* two credits of one user for distinct sessions have both been applied
C3_Witness ==
  \E b, c \in Calls :
    /\ b # c /\ Returned(b) /\ Returned(c)
    /\ args[b].userId = args[c].userId
    /\ args[b].sessionId # args[c].sessionId
    /\ args[b].energyAmount > 0 /\ args[c].energyAmount > 0
    /\ args[b].dopamineAmount > 0

\* the balance columns of a user's row changed in this step
BalanceChanged(u) ==
  user_currency_balances'[u] # user_currency_balances[u]

\* the transaction rows added by this step
Added == (Len(currency_transactions) + 1)..Len(currency_transactions')

\* C4: a step in which a call throws leaves every balance row and the
\* transaction table as they were, and in every step the balance row of a
\* user changes exactly when transaction rows of that user are added.
C4_AllOrNothing ==
  [][/\ \A c \in Calls : JustThrew(c) =>
          /\ user_currency_balances' = user_currency_balances
          /\ currency_transactions' = currency_transactions
     /\ \A u \in UserIds : user_currency_balances[u] # NoRow =>
          (BalanceChanged(u) <=>
             \E i \in Added : currency_transactions'[i].user_id = u)]_vars

\* a call failed on its connection while another credit is committed
C4_Witness ==
  \E b, c \in Calls :
    /\ pc[c] = "threw" /\ error[c].cause = "connection"
    /\ args[c].energyAmount > 0
    /\ Paid(b) /\ args[b].userId = args[c].userId
    /\ Len(TransactionsOf(args[b].userId)) > 0

\* the last transaction row of every user shows the user's balance row
LastTransactionIsBalance ==
  \A i \in DOMAIN currency_transactions :
    LET r == currency_transactions[i] IN
      (\A j \in (i + 1)..Len(currency_transactions) :
          currency_transactions[j].user_id # r.user_id) =>
        /\ r.balance_after_energy
             = user_currency_balances[r.user_id].energy_balance
        /\ r.balance_after_dopamine
             = user_currency_balances[r.user_id].dopamine_balance

\* C5: every transaction row added by a step carries, in its balance-after
\* columns, the balance row committed by that same step, and in every state
\* the last transaction row of a user shows the user's current balance.
C5_BalanceAfterIsCommittedRow ==
  /\ []LastTransactionIsBalance
  /\ [][\A i \in Added :
          LET r == currency_transactions'[i] IN
            /\ r.balance_after_energy
                 = user_currency_balances'[r.user_id].energy_balance
            /\ r.balance_after_dopamine
                 = user_currency_balances'[r.user_id].dopamine_balance]_vars

\* a credit of both currencies is committed and no call is in progress
C5_Witness ==
  /\ \A c \in Calls : pc[c] \in {"returned", "threw"}
  /\ \E c \in Calls : Returned(c) /\ args[c].energyAmount > 0
                                  /\ args[c].dopamineAmount > 0
  /\ \E u \in UserIds : Len(TransactionsOf(u)) >= 2

\* C6: for every two consecutive transaction rows of a user, the balance
\* after the later row is the balance after the earlier row plus the later
\* row's amount, for both currencies.
C6_TransactionsChain ==
  \A u \in UserIds :
    LET t == TransactionsOf(u) IN
      \A n \in 1..(Len(t) - 1) :
        /\ t[n + 1].balance_after_energy
             = t[n].balance_after_energy + t[n + 1].energy_amount
        /\ t[n + 1].balance_after_dopamine
             = t[n].balance_after_dopamine + t[n + 1].dopamine_amount

C8_BalancesWithinLifetime ==
  \A u \in UserIds : user_currency_balances[u] # NoRow =>
    LET row == user_currency_balances[u] IN
      /\ row.energy_balance >= 0
      /\ row.dopamine_balance >= 0
      /\ row.energy_balance <= row.total_energy_earned
      /\ row.dopamine_balance <= row.total_dopamine_earned

\* a user holds both currencies after two committed credits
C8_Witness ==
  \E u \in UserIds :
    /\ user_currency_balances[u] # NoRow
    /\ user_currency_balances[u].energy_balance > 0
    /\ user_currency_balances[u].dopamine_balance > 0
    /\ Cardinality(CreditsOf(u)) >= 2

\* the call's amounts would take a balance above its ceiling
ExceedsEnergy(c) ==
  currentBalances[c].energy_balance + args[c].energyAmount > ENERGY_MAX_BALANCE
ExceedsDopamine(c) ==
  currentBalances[c].dopamine_balance + args[c].dopamineAmount > DOPAMINE_MAX_BALANCE
\* the call leaves the checks in this step, and not by a lost connection
Decided(c) ==
  /\ pc[c] = "locked" /\ pc'[c] # "locked"
  /\ args[c].energyAmount >= 0
  /\ error'[c].cause # "connection"

Min(a, b) == IF a < b THEN a ELSE b

C11_NoRowMeansUserNotFound ==
  /\ [](\A u \in UserIds :
         user_currency_balances[u] = NoRow => TransactionsOf(u) = << >>)
  /\ [][/\ \A c \in Calls :
            (/\ pc[c] = "begun" /\ pc'[c] # "begun"
             /\ user_currency_balances[args[c].userId] = NoRow) =>
               /\ pc'[c] = "threw"
               /\ error'[c].cause # "connection" =>
                    error'[c] = [name |-> "DatabaseError", cause |-> "UserNotFound"]
               /\ user_currency_balances'[args[c].userId] = NoRow
               /\ SelectSeq(currency_transactions',
                            LAMBDA r : r.user_id = args[c].userId) = << >>
        /\ \A u \in UserIds :
            (user_currency_balances[u] = NoRow /\ user_currency_balances'[u] # NoRow)
              => pc' = pc]_vars

\* a call for a user without a balance row has thrown UserNotFound while a
\* credit of another user is committed
C11_Witness ==
  \E b, c \in Calls :
    /\ pc[c] = "threw" /\ error[c].cause = "UserNotFound"
    /\ args[c].energyAmount > 0
    /\ user_currency_balances[args[c].userId] = NoRow
    /\ Paid(b) /\ Len(currency_transactions) > 0

\* ---------------------------------------------------- claims about sessions
Exists(s) == focus_sessions[s] # NoRow
Status(s) == focus_sessions[s].status
Terminal(s) == Exists(s) /\ Status(s) \in {"completed", "abandoned"}
StartRejected == Error("Session can only be started from planned status")
CompleteRejected == Error("Only active sessions can be completed")
\* worker c begins a call by this step
Called(c) == pc[c] = "idle" /\ pc'[c] # "idle"
\* the credit call made by completeSession for worker c has thrown
CreditFailed(c) == pc[c] = "threw" /\ args[c] # NoArgs
\* worker c makes the credit call of completeSession in this step
CreditCalled(c) == pc[c] = "completing" /\ pc'[c] = "begun"

\* session s is completed with a reward that no credit has applied and no
\* credit call is about to apply: its credit call has failed
RewardPending(s) ==
  /\ Exists(s) /\ Status(s) = "completed"
  /\ focus_sessions[s].energyGenerated # Set(0)
  /\ user_currency_balances[focus_sessions[s].userId] \in {NoRow, EarlierBalanceRow}
  /\ \A c \in Workers : args[c] = NoArgs

\* C12: when the credit call of complete has failed, the session it was made
\* for is completed, and while the reward is pending the session stays
\* completed: no step gives it another status, accepts a complete call on it
\* or has a complete call make a credit call for it.
C12_FailedCreditLeavesSessionCompleted ==
  /\ [](\A c \in Workers :
          CreditFailed(c) => Status(args[c].sessionId) = "completed")
  /\ [][\A s \in SessionIds : RewardPending(s) =>
          /\ focus_sessions'[s].status = "completed"
          /\ \A c \in Workers :
               /\ ~(Called(c) /\ pc'[c] = "completing"
                      /\ request'[c].sessionId = s)
               /\ ~(CreditCalled(c) /\ args'[c].sessionId = s)]_vars

\* the status changes a session may make
AllowedStatusChanges ==
  {<<"planned", "active">>, <<"active", "paused">>, <<"paused", "active">>,
   <<"active", "completed">>, <<"paused", "completed">>,
   <<"planned", "abandoned">>, <<"active", "abandoned">>,
   <<"paused", "abandoned">>}

\* C14: every step that changes the status of a session makes one of the
\* changes planned -> active, active -> paused, paused -> active, active or
\* paused -> completed, not terminal -> abandoned, and no step changes any
\* field of a session that is completed or abandoned.
C14_OnlyAllowedStatusChanges ==
  [][\A s \in SessionIds : Exists(s) =>
       /\ focus_sessions'[s].status # Status(s) =>
            <<Status(s), focus_sessions'[s].status>> \in AllowedStatusChanges
       /\ Terminal(s) => focus_sessions'[s] = focus_sessions[s]]_vars

\* C15: a start call is accepted only on a planned session; a session
\* becomes paused only from active, and active only from paused or by the
\* update of an accepted start call; and a step in which a call throws (the
\* error of startSession for a status other than planned, InvalidTransition
\* of pause and resume) leaves every session as it was.
C15_WrongSourceIsRejected ==
  [][/\ \A c \in Workers :
          /\ (Called(c) /\ pc'[c] = "starting") =>
               Status(request'[c].sessionId) = "planned"
          /\ (Called(c) /\ pc'[c] = "threw") =>
               focus_sessions' = focus_sessions
     /\ \A s \in SessionIds : (Exists(s) /\ focus_sessions'[s].status # Status(s)) =>
          /\ focus_sessions'[s].status = "paused" => Status(s) = "active"
          /\ focus_sessions'[s].status = "active" =>
               \/ Status(s) = "paused"
               \/ \E c \in Workers : /\ pc[c] = "starting" /\ pc'[c] # "starting"
                                      /\ request[c].sessionId = s]_vars

\* a start call on a session that is no longer planned has been rejected
C15_Witness ==
  \E c \in Workers :
    /\ pc[c] = "threw" /\ error[c] = StartRejected
    /\ Exists("s1") /\ Status("s1") \in {"active", "paused", "completed"}
    /\ focus_sessions["s1"].interruptionCount > 0

\* C16: a step that takes a session from active to paused adds exactly 1 to
\* its interruption count, no other step changes the count, and a session is
\* created with the count 0.
C16_PauseCountsInterruptions ==
  [][\A s \in SessionIds :
       IF Exists(s)
         THEN focus_sessions'[s].interruptionCount =
                IF Status(s) = "active" /\ focus_sessions'[s].status = "paused"
                  THEN focus_sessions[s].interruptionCount + 1
                  ELSE focus_sessions[s].interruptionCount
         ELSE focus_sessions'[s] # NoRow =>
                focus_sessions'[s].interruptionCount = 0]_vars

\* a session that was paused once and resumed has been completed
C16_Witness ==
  /\ Exists("s1") /\ Status("s1") = "completed"
  /\ focus_sessions["s1"].interruptionCount = 1
  /\ focus_sessions["s1"].energyGenerated = Set(900)

\* C17 as claimed: a complete call is not rejected for its status while
\* every session there is is paused.
C17_CompleteAcceptedFromPaused ==
  [][((\E s \in SessionIds : Exists(s))
        /\ \A s \in SessionIds : Exists(s) => Status(s) = "paused") =>
       \A c \in Workers : Called(c) => error'[c] # CompleteRejected]_vars

\* C17 amended: a complete call is accepted only from its owner on an active
\* session; the call rejected for the status leaves every session as it was;
\* and the update of an accepted call, when the table accepts it, marks the
\* session completed with the end timestamp and the actual duration and
\* makes the credit call for the owner and the session.
C17_CompleteAcceptedFromActiveOnly ==
  [][\A c \in Workers :
       /\ (Called(c) /\ pc'[c] = "completing") =>
            /\ Status(request'[c].sessionId) = "active"
            /\ focus_sessions[request'[c].sessionId].userId = request'[c].userId
       /\ (Called(c) /\ error'[c] = CompleteRejected) =>
            focus_sessions' = focus_sessions
       /\ CreditCalled(c) =>
            LET s == request[c].sessionId IN
              /\ focus_sessions'[s].status = "completed"
              /\ focus_sessions'[s].endTime = Set(completion[c].endTime)
              /\ focus_sessions'[s].actualDuration = Set(completion[c].duration)
              /\ args'[c].sessionId = s
              /\ args'[c].userId = focus_sessions[s].userId]_vars

\* a complete call on a paused session has been rejected
C17_Witness ==
  \E c \in Workers :
    /\ pc[c] = "threw" /\ error[c] = CompleteRejected
    /\ Exists("s1") /\ Status("s1") = "paused"

\* C18: the duration a complete call computes is the actualDuration argument
\* when one is supplied and is at least 1, and otherwise the whole minutes
\* from the session's start timestamp to now, rounded down.
C18_DurationIsOverrideOrElapsed ==
  [][\A c \in Workers : (Called(c) /\ pc'[c] = "completing") =>
       LET actualDuration == request'[c].actualDuration
           startTime == focus_sessions[request'[c].sessionId].startTime
       IN completion'[c].duration =
            IF actualDuration # Unset /\ actualDuration[1] >= 1
              THEN actualDuration[1]
              ELSE (now - startTime) \div 60000]_vars

\* C19: a step that takes a session to abandoned starts from planned, active
\* or paused and leaves the balance rows and the transaction rows as they
\* were, and no credit call with a reward is ever made for a session that is
\* abandoned.
C19_AbandonedIsNeverCredited ==
  [][\A s \in SessionIds : Exists(s) =>
       /\ (Status(s) # "abandoned" /\ focus_sessions'[s].status = "abandoned") =>
            /\ Status(s) \in {"planned", "active", "paused"}
            /\ user_currency_balances' = user_currency_balances
            /\ currency_transactions' = currency_transactions
       /\ Status(s) = "abandoned" =>
            \A c \in Workers : ~(/\ CreditCalled(c) /\ args'[c].sessionId = s
                                  /\ args'[c].energyAmount > 0)]_vars

\* C20: the actual duration of a session is null unless the session is
\* completed or abandoned, and its energy generated and dopamine generated
\* are null unless it is completed.
C20_CompletionFieldsNullUntilTerminal ==
  \A s \in SessionIds : Exists(s) =>
    /\ Status(s) \notin {"completed", "abandoned"} =>
         focus_sessions[s].actualDuration = Unset
    /\ Status(s) # "completed" =>
         /\ focus_sessions[s].energyGenerated = Unset
         /\ focus_sessions[s].dopamineGenerated = Unset

\* C13: no session ever has more than one transaction row of type
\* focus_session_reward with its reference, and every session that is
\* completed with a reward, and is not taken out of that status again,
\* eventually has exactly one.
C13_CompletedSessionIsPaidOnce ==
  \A s \in SessionIds :
    /\ [](Cardinality(RewardTransactions(s)) <= 1)
    /\ (Exists(s) /\ Status(s) = "completed"
                  /\ focus_sessions[s].energyGenerated # Set(0))
         ~> \/ Cardinality(RewardTransactions(s)) = 1
            \/ ~(Exists(s) /\ Status(s) = "completed")

\* ------------------------------------------------ claims about the rewards
\* the energy formula in exact arithmetic, in hundredths: the duration times
\* the category multiplier, the duration-tier bonus and the interruption
\* penalty max(0.5, 1 - 0.1 * count), rounded half-up
EnergyFormula(category, duration, count) ==
  LET multiplier == CASE category = "analytical" -> 120
                      [] category = "learning" -> 115
                      [] category = "creative" -> 110
                      [] category = "physical" -> 90
                      [] OTHER -> 100
      tier == IF duration >= 50 THEN 132 ELSE IF duration >= 25 THEN 110 ELSE 100
      penalty == Max(5, 10 - count)
      \* duration * multiplier/100 * tier/100 * penalty/10, in 1/100000
      scaled == duration * multiplier * tier * penalty
  IN (2 * scaled + 1000) \div 2000

\* the calculation of worker c is done
Calculated(c) == completion[c] # NoArgs

\* C25: the energy calculated for a session is the formula's value rounded
\* half-up to 2 decimals, for every duration, interruption count and
\* category of the range.
C25_EnergyIsFormulaRoundedHalfUp ==
  \A c \in Workers : Calculated(c) =>
    LET session == focus_sessions[request[c].sessionId]
    IN completion[c].energyEarned =
         EnergyFormula(session.task, completion[c].duration,
                       session.interruptionCount)

AccessDenied == Error("Access denied to focus session")

\* C21: a start, pause, resume, complete or abandon call made for an existing
\* session with a user id that is not its owner's ends at once with the
\* error of a caller who is not the owner, and the step changes no session,
\* no balance row and no transaction.
C21_StrangerIsRejectedBeforeAnyChange ==
  [][\A c \in Workers, s \in SessionIds, u \in UserIds :
       (/\ Exists(s)
        /\ focus_sessions[s].userId # u
        /\ \/ startSession(c, s, u)
           \/ pauseSession(c, s, u)
           \/ resumeSession(c, s, u)
           \/ abandonSession(c, s, u)
           \/ \E d \in Overrides : completeSession(c, s, u, d))
       => /\ pc'[c] = "threw"
          /\ error'[c] \in {NotOwner, AccessDenied}
          /\ focus_sessions' = focus_sessions
          /\ user_currency_balances' = user_currency_balances
          /\ currency_transactions' = currency_transactions]_vars

\* a call of startSession or completeSession by u2 for the paused session of
\* u1, ten minutes after its start, has been rejected
C21_Witness ==
  \E c \in Workers :
    /\ pc[c] = "threw" /\ error[c] = AccessDenied
    /\ Exists("s1") /\ focus_sessions["s1"].userId = "u1"
    /\ Status("s1") = "paused"
    /\ now = 630000

\* C22: a create call without task and module configuration fails with
\* InvalidDuration and creates no session when the planned duration is below
\* 1 or above MAX_SESSION_DURATION (480), and for every planned duration
\* from 1 to 480 it returns having created the session in status planned.
C22_CreateAcceptsOneTo480 ==
  [][\A c \in Workers, u \in UserIds, d \in SerialDurations :
       createSession(c, "s1", u, NULL, NULL, d) =>
         IF d < 1 \/ d > MAX_SESSION_DURATION
           THEN /\ pc'[c] = "threw" /\ error'[c] = InvalidDuration
                /\ focus_sessions' = focus_sessions
           ELSE /\ pc'[c] = "returned"
                /\ Exists("s1")'
                /\ focus_sessions'["s1"].status = "planned"
                /\ focus_sessions'["s1"].plannedDuration = d]_vars

\* C23: of two start calls, or two complete calls, in progress for the same
\* session only one succeeds: a start call writes its update only while the
\* session is still planned, and a complete call writes its update and makes
\* its credit call only while the session is still active and no other
\* credit call has been made for it.
C23_RacingCallsAreSerialized ==
  [][\A c \in Workers :
       /\ (pc[c] = "starting" /\ pc'[c] = "returned") =>
            Status(request[c].sessionId) = "planned"
       /\ (pc[c] = "completing" /\ pc'[c] = "begun") =>
            /\ Status(request[c].sessionId) = "active"
            /\ \A b \in Workers \ {c} :
                 args[b] = NoArgs \/ args[b].sessionId # request[c].sessionId]_vars

\* C24 (as stated): when a complete call computes the energy and the dopamine
\* of a session, the session has already been written as completed.
C24_StatusWrittenBeforeRewardsComputed ==
  \A c \in Workers :
    completion[c] # NoArgs => Status(request[c].sessionId) = "completed"

\* C24 (amended): a complete call first computes the energy and the dopamine,
\* writing nothing; its next step writes status = completed together with the
\* computed amounts and changes no balance and no transaction; and a
\* transaction is added only in a later step, the commit of the credit call
\* of a complete call, for a session whose amounts have been written.
C24_ComputedThenWrittenThenCredited ==
  [][/\ \A c \in Workers :
          /\ (Called(c) /\ pc'[c] = "completing") =>
               /\ completion'[c] # NoArgs
               /\ focus_sessions' = focus_sessions
          /\ CreditCalled(c) =>
               LET s == request[c].sessionId IN
                 /\ focus_sessions'[s].status = "completed"
                 /\ focus_sessions'[s].energyGenerated =
                      Set(completion[c].energyEarned)
                 /\ focus_sessions'[s].dopamineGenerated =
                      completion[c].dopamineEarned
                 /\ user_currency_balances' = user_currency_balances
                 /\ currency_transactions' = currency_transactions
     /\ Len(currency_transactions') # Len(currency_transactions) =>
          \E c \in Workers :
            /\ pc[c] = "updated" /\ pc'[c] = "returned"
            /\ request[c] # NoArgs
            /\ focus_sessions[args[c].sessionId].energyGenerated # Unset]_vars

\* the complete call of the session s1 has computed its rewards, written the
\* session as completed and returned from its credit call, which has taken
\* the energy balance of u1 from 9990 to 10000
C24_Witness ==
  \E c \in Workers :
    /\ pc[c] = "returned" /\ request[c] # NoArgs
    /\ request[c].sessionId = "s1"
    /\ Status("s1") = "completed"
    /\ focus_sessions["s1"].energyGenerated = Set(1000)
    /\ user_currency_balances["u1"].energy_balance = ENERGY_MAX_BALANCE

\* C27: the dopamine a complete call computes is 0 for a session without
\* module configuration and otherwise the rate of the configuration times the
\* duration, in ten-thousandths: 0 for the empty preset p0, and 500 or 1000
\* per minute (the rates p1 can have had when the session was created) for
\* p1, whatever the time that has passed since the start.
C27_DopamineIsSnapshotRateTimesDuration ==
  \A c \in Workers :
    completion[c] # NoArgs =>
      LET moduleConfigurationId ==
            focus_sessions[request[c].sessionId].moduleConfigurationId
          duration == completion[c].duration
      IN completion[c].dopamineEarned \in
           IF moduleConfigurationId \in {NULL, "p0"} THEN {Set(0)}
           ELSE {Set(rate * duration) : rate \in Rates \ {0}}

\* C28: while a session with a module configuration is not completed or
\* abandoned, no step removes or changes the rate cached for it when it was
\* created.
C28_SnapshotRateStaysAttached ==
  [][\A s \in SessionIds :
       (/\ Exists(s) /\ ~Terminal(s)'
        /\ focus_sessions[s].moduleConfigurationId # NULL
        /\ redis[s] # NoRow)
       => /\ redis'[s] # NoRow
          /\ redis'[s].dopamineGenerationRate = redis[s].dopamineGenerationRate]_vars

\* the error of validateModuleConfiguration for a module of another user
NotOwnedModule == Error("User does not own required module")
\* the preset p references a module that the user u does not own
ReferencesForeign(p, u) ==
  \E i \in DOMAIN module_presets[p].configuration :
    module_presets[p].configuration[i].userModuleId \notin userModules(u)

\* C29: a create call with a module configuration that references a module
\* the caller does not own throws, creates no session and caches no rate (for
\* an active preset of the caller, an accepted duration and task, the error
\* is the one of the module that is not owned); a create call with the
\* caller's empty active configuration, an accepted duration and task
\* returns having created the session and cached the rate 0.
C29_ForeignModuleIsRejectedEmptyIsNot ==
  [][\A c \in Workers, u \in UserIds, t \in {NULL} \cup TaskIds,
        p \in PresetIds, d \in SerialDurations :
       createSession(c, "s1", u, t, p, d) =>
         LET preset == module_presets[p]
             accepted == /\ plannedDurationIsValid(d)
                         /\ t # NULL => tasks[t].userId = u
                         /\ preset.userId = u /\ preset.isActive
         IN /\ ReferencesForeign(p, u) =>
                 /\ pc'[c] = "threw"
                 /\ focus_sessions' = focus_sessions
                 /\ redis' = redis
                 /\ accepted => error'[c] = NotOwnedModule
            /\ (accepted /\ preset.configuration = << >>) =>
                 /\ pc'[c] = "returned"
                 /\ focus_sessions'["s1"] # NoRow
                 /\ focus_sessions'["s1"].moduleConfigurationId = p
                 /\ redis'["s1"].dopamineGenerationRate = Set(0)]_vars

\* the create call of u1 with the preset p2, which references the module m2
\* of u2, has been rejected and there is no session
C29_Witness ==
  \E c \in Workers :
    /\ pc[c] = "threw" /\ error[c] = NotOwnedModule
    /\ ~Exists("s1")
    /\ ReferencesForeign("p2", "u1")

\* ---------------------------------------------- claims about the aggregation
\* the configuration with its instances in another order
Reordered(configuration) ==
  {[k \in DOMAIN configuration |-> configuration[f[k]]] :
     f \in Permutations(DOMAIN configuration)}
\* the configuration without its disabled instances
RECURSIVE EnabledOnly(_)
EnabledOnly(configuration) ==
  IF configuration = << >> THEN << >>
  ELSE IF Head(configuration).enabled
    THEN <<Head(configuration)>> \o EnabledOnly(Tail(configuration))
  ELSE EnabledOnly(Tail(configuration))

\* C30: the stored rate of every preset with modules of its owner is not
\* negative, is the aggregated rate of its configuration in every order of
\* the instances, and is the aggregated rate of the configuration without
\* its disabled instances.
C30_RateIsTheSameInEveryOrder ==
  \A p \in {"p0", "p1", "p3"} :
    LET configuration == module_presets[p].configuration
        rate == module_presets[p].dopamineGenerationRate
    IN /\ rate >= 0
       /\ \A other \in Reordered(configuration) : aggregate(other) = rate
       /\ aggregate(EnabledOnly(configuration)) = rate

\* p1 has been saved with the multiplier m3 (factor 1.5), the generator m4 at
\* intensity 40 connected to it (0.02 per minute) and a disabled generator:
\* the rate is 0.0300
C30_Witness ==
  /\ module_presets["p1"].configuration =
       <<Instance("m3", TRUE, 100, {}), Instance("m4", TRUE, 40, {"m3"}),
         Instance("m5", FALSE, 100, {})>>
  /\ module_presets["p1"].dopamineGenerationRate = 300

\* the generator i of the configuration is enabled and connected to an
\* enabled multiplier
Multiplied(configuration, i) ==
  /\ i.enabled
  /\ modules[i.userModuleId].type = "generator"
  /\ \E k \in DOMAIN configuration :
       /\ configuration[k].enabled
       /\ modules[configuration[k].userModuleId].type = "multiplier"
       /\ Connected(i, configuration[k])
\* the configuration without its multipliers and without connections, each
\* multiplied generator at its intensity times the factor 1.5
RECURSIVE Scaled(_, _)
Scaled(configuration, n) ==
  IF n = 0 THEN << >>
  ELSE LET i == configuration[n]
       IN Scaled(configuration, n - 1) \o
          (IF modules[i.userModuleId].type = "multiplier" THEN << >>
           ELSE <<Instance(i.userModuleId, i.enabled,
                           IF Multiplied(configuration, i)
                             THEN (i.intensity * 3) \div 2
                             ELSE i.intensity,
                           {})>>)
\* the configuration without its multipliers
RECURSIVE WithoutMultipliers(_)
WithoutMultipliers(configuration) ==
  IF configuration = << >> THEN << >>
  ELSE IF modules[Head(configuration).userModuleId].type = "multiplier"
    THEN WithoutMultipliers(Tail(configuration))
  ELSE <<Head(configuration)>> \o WithoutMultipliers(Tail(configuration))

\* C31: the stored rate of a preset is the rate of its generators alone, each
\* generator connected to the enabled multiplier counted at 1.5 times its
\* intensity and every other one at its own intensity; when no generator is
\* connected to the multiplier the rate is the rate without the multiplier;
\* the generator of rate 0.02 connected to the multiplier, both enabled at
\* intensity 100, gives 0.0300.
C31_FactorScalesConnectedGeneratorsOnly ==
  LET configuration == module_presets["p1"].configuration
      rate == module_presets["p1"].dopamineGenerationRate
  IN /\ rate = aggregate(Scaled(configuration, Len(configuration)))
     /\ (\A k \in DOMAIN configuration :
           ~Multiplied(configuration, configuration[k]))
          => rate = aggregate(WithoutMultipliers(configuration))
     /\ configuration \in
          Reordered(<<Instance("m6", TRUE, 100, {"m3"}),
                      Instance("m3", TRUE, 100, {})>>)
          => rate = 300

\* p1 has been saved with the generator m1 at intensity 100, not connected,
\* then the generator m6 (0.02 per minute) connected to the multiplier, then
\* the multiplier m3: the rate is 0.05 + 0.02 * 1.5 = 0.0800
C31_Witness ==
  /\ module_presets["p1"].configuration =
       <<Instance("m1", TRUE, 100, {}), Instance("m6", TRUE, 100, {"m3"}),
         Instance("m3", TRUE, 100, {})>>
  /\ module_presets["p1"].dopamineGenerationRate = 800

\* ------------------------------------------------- claims about two users
\* C32: a step of a credit for one user leaves the balance row, the row lock
\* and the transaction rows of every other user, and every session, as they
\* were; and a credit whose user has a balance row that no other call has
\* locked can take its next step, whichever locks other users' credits hold.
C32_OtherUsersAreUntouchedAndNeverWaitedFor ==
  /\ [](\A c \in Calls :
          LET u == args[c].userId
          IN /\ (/\ pc[c] = "begun"
                 /\ user_currency_balances[u] # NoRow
                 /\ rowLock[u] = 0) => ENABLED Lock(c)
             /\ pc[c] = "locked" => ENABLED (Update(c) \/ RejectRewards(c))
             /\ pc[c] = "updated" => ENABLED Commit(c))
  /\ [][\A c \in Calls : pc'[c] # pc[c] =>
          /\ focus_sessions' = focus_sessions
          /\ \A b \in UserIds \ {args'[c].userId} :
               /\ user_currency_balances'[b] = user_currency_balances[b]
               /\ rowLock'[b] = rowLock[b]
               /\ SelectSeq(currency_transactions', LAMBDA r : r.user_id = b)
                    = TransactionsOf(b)]_vars

\* the credit of call 1 for u1 has written its update and still holds u1's
\* row lock, and the credit of call 2 for u2 has returned and is in u2's
\* balance, while u1's committed row is still the one call 1 read
C32_Witness ==
  /\ pc[1] = "updated" /\ args[1].userId = "u1" /\ rowLock["u1"] = 1
  /\ user_currency_balances["u1"] = currentBalances[1]
  /\ pendingRow[1] # currentBalances[1]
  /\ pc[2] = "returned" /\ args[2].userId = "u2"
  /\ user_currency_balances["u2"].energy_balance > 0
  /\ TransactionsOf("u2") # << >>
  /\ TransactionsOf("u1") = << >>

\* ------------------------------------------- claims about a session's reward
\* C33: a session completed with an actual duration of 0 minutes has 0 energy
\* and 0 dopamine, the credit call made for it carries 0 energy, and the
\* credit writes no transaction row.
C33_ZeroMinutesIsRewardless ==
  \A s \in SessionIds :
    (Exists(s) /\ Status(s) = "completed"
       /\ focus_sessions[s].actualDuration = Set(0)) =>
      /\ focus_sessions[s].energyGenerated = Set(0)
      /\ focus_sessions[s].dopamineGenerated = Set(0)
      /\ \A c \in Workers :
           (args[c] # NoArgs /\ args[c].sessionId = s) =>
             /\ args[c].energyAmount = 0
             /\ pendingTx[c] = << >>

\* C34: the energy a routine calculates for a session without category and
\* without interruptions is the duration times 1.00 up to 24 minutes, times
\* 1.10 from 25 to 49 and times 1.32 from 50 on, in hundredths.
C34_TierBonusInEveryRoutine ==
  \A c \in Workers :
    (/\ Calculated(c)
     /\ focus_sessions[request[c].sessionId].task = NULL
     /\ focus_sessions[request[c].sessionId].interruptionCount = 0) =>
      LET duration == completion[c].duration
      IN completion[c].energyEarned =
           duration * (IF duration >= 50 THEN 132
                       ELSE IF duration >= 25 THEN 110 ELSE 100)

\* C35: the energy calculated for a session with up to 5 interruptions is,
\* to the hundredth, the uninterrupted amount times 1 - 0.1 * count, and with
\* 5 or more interruptions it is the energy of 5 interruptions; one more
\* interruption never gives more energy, and twice the energy is, to the
\* hundredth, at least the energy of the same session without interruptions.
C35_PenaltyIsLinearThenHalf ==
  \A c \in Workers : Calculated(c) =>
    LET session == focus_sessions[request[c].sessionId]
        duration == completion[c].duration
        count == session.interruptionCount
        energy == completion[c].energyEarned
        with(n) == calculateEnergyEarned(
                     [session EXCEPT !.interruptionCount = n], duration)
    IN /\ count <= 5 =>
            Abs(energy - EnergyFormula(session.task, duration, count)) <= 1
       /\ count >= 5 => energy = with(5)
       /\ with(count + 1) <= energy
       /\ 2 * energy + 1 >= with(0)

\* the energy of a session of 50 minutes with 7 interruptions has been
\* calculated: 50 * 1.32 * 0.5 = 33.00
C35_Witness ==
  /\ Calculated(1) /\ completion[1].duration = 50
  /\ focus_sessions["s1"].task = NULL
  /\ focus_sessions["s1"].interruptionCount = 7
  /\ completion[1].energyEarned = 3300

\* ------------------------------------------- claims about the transaction log
\* C36: every step leaves each committed transaction row where it is and as
\* it is; the table changes only by rows added after the last one.
C36_TransactionLogIsAppendOnly ==
  [][/\ Len(currency_transactions') >= Len(currency_transactions)
     /\ \A i \in DOMAIN currency_transactions :
          currency_transactions'[i] = currency_transactions[i]]_vars

\* the credit of the completed session s1 failed, the job retried it and the
\* retry has returned: the log holds the row of the earlier sessions and,
\* after it, the row of the retry
C36_Witness ==
  \E c \in Workers :
    /\ pc[c] = "returned" /\ args[c] # NoArgs /\ request[c] = NoArgs
    /\ Exists("s1") /\ Status("s1") = "completed"
    /\ Len(currency_transactions) = 2
    /\ currency_transactions[1].balance_after_energy = ENERGY_MAX_BALANCE - 10
    /\ currency_transactions[2].balance_after_energy = ENERGY_MAX_BALANCE

\* the sum of the energy amounts, and of the dopamine amounts, of the rows t
RECURSIVE EnergyDeltas(_)
EnergyDeltas(t) ==
  IF t = << >> THEN 0 ELSE Head(t).energy_amount + EnergyDeltas(Tail(t))
RECURSIVE DopamineDeltas(_)
DopamineDeltas(t) ==
  IF t = << >> THEN 0 ELSE Head(t).dopamine_amount + DopamineDeltas(Tail(t))
\* no call is in progress
Quiescent == \A c \in Calls : pc[c] \in {"idle", "returned", "threw"}

\* C37: when no call is in progress, a user's energy balance is the sum of
\* the energy amounts of the user's transaction rows and the dopamine balance
\* the sum of their dopamine amounts, and the user has one row for each
\* credit of a non-zero reward that returned, with the energy and the
\* dopamine amount of that credit.
C37_BalanceIsSumOfOneRowPerCredit ==
  \A u \in UserIds :
    (Quiescent /\ user_currency_balances[u] # NoRow) =>
      LET t == TransactionsOf(u) IN
        /\ user_currency_balances[u].energy_balance = EnergyDeltas(t)
        /\ user_currency_balances[u].dopamine_balance = DopamineDeltas(t)
        /\ Len(t) = Cardinality({c \in CreditsOf(u) : Paid(c)})
        /\ \A c \in {d \in CreditsOf(u) : Paid(d)} :
             \E i \in DOMAIN t :
               /\ t[i].energy_amount = args[c].energyAmount
               /\ t[i].dopamine_amount = args[c].dopamineAmount

\* --------------------------------------------------- claims about purchases
\* the purchases of user u that have returned
PurchasesOf(u) == {c \in Calls : Returned(c) /\ args[c].userId = u}
RECURSIVE SumCost(_)
SumCost(S) ==
  IF S = {} THEN 0
  ELSE LET c == CHOOSE x \in S : TRUE
       IN base_energy_cost(args[c].moduleId) + SumCost(S \ {c})

\* C38: under every interleaving of the purchases' statements the energy
\* balance is not negative and is the 100 energy the user had less the full
\* cost of every purchase that returned, each returned purchase has one owned
\* module of its own, a purchase that throws changes neither the balances nor
\* the transactions nor the owned modules, and a purchase that returns takes
\* its full cost and adds exactly its module.
C38_PurchasesNeverOverspend ==
  /\ [](\A u \in UserIds : user_currency_balances[u] # NoRow =>
          /\ user_currency_balances[u].energy_balance >= 0
          /\ user_currency_balances[u].energy_balance
               = 100 - SumCost(PurchasesOf(u))
          /\ userModules(u) = {args[c].moduleId : c \in PurchasesOf(u)}
          /\ Cardinality(userModules(u)) = Cardinality(PurchasesOf(u)))
  /\ [][\A c \in Calls :
          /\ JustThrew(c) =>
               /\ user_currency_balances' = user_currency_balances
               /\ currency_transactions' = currency_transactions
               /\ user_modules' = user_modules
          /\ JustReturned(c) =>
               LET u == args[c].userId
                   m == args[c].moduleId
               IN /\ user_currency_balances'[u].energy_balance
                       = user_currency_balances[u].energy_balance
                           - base_energy_cost(m)
                  /\ <<u, m>> \notin user_modules
                  /\ user_modules' = user_modules \cup {<<u, m>>}]_vars

\* two purchases of u1, of the modules that cost 60 and 100, both read the
\* balance 100 and both passed the test; one has returned, and the UPDATE of
\* the other was rejected by the CHECK constraint
C38_Witness ==
  \E b, c \in Calls :
    /\ args[b] # NoArgs /\ args[c] # NoArgs
    /\ args[b].userId = "u1" /\ args[c].userId = "u1"
    /\ {args[b].moduleId, args[c].moduleId} = {"m1", "m2"}
    /\ currentBalances[b] # NoRow /\ currentBalances[c] # NoRow
    /\ currentBalances[b].energy_balance = 100
    /\ currentBalances[c].energy_balance = 100
    /\ pc[b] = "returned"
    /\ pc[c] = "threw" /\ error[c] = CheckViolation
    /\ user_currency_balances["u1"].energy_balance
         = 100 - base_energy_cost(args[b].moduleId)

\* ------------------------------------------------ claims about the SyncQueue
\* C39: the operations are executed once each and in the order they were
\* added, an operation is executed only when every operation added before it
\* has been executed, and the operations waiting are in the order they were
\* added.
C39_OperationsExecuteOnceInOrder ==
  /\ executed = [i \in 1..Len(executed) |-> i]
  /\ \A operation \in executing :
       \A earlier \in 1..(operation - 1) :
         \E i \in DOMAIN executed : executed[i] = earlier
  /\ \A i, j \in DOMAIN queue : i < j => queue[i] < queue[j]

====
